---------------------------- MODULE Spec2Model ----------------------------
(***************************************************************************)
(* A model of the Fool shell core: the command parser (src/src/parser.rs), *)
(* the pipeline executor (src/src/executor.rs), the history store          *)
(* (src/src/history.rs) and the interactive loop (src/src/repl.rs).        *)
(*                                                                         *)
(* The specifications of this module:                                      *)
(*   SpecParser         Parser::parse run character by character on every  *)
(*                      input line of up to MaxLen characters;             *)
(*   SpecParserLines    Parser::parse on lines built from quoted words,    *)
(*                      pipelines and redirects;                           *)
(*   SpecExecutor       Executor::execute_pipeline on every pipeline of up *)
(*                      to MaxSegments external segments, the children     *)
(*                      running concurrently with the shell;               *)
(*   SpecPipes          one call of execute_pipeline under fair scheduling, *)
(*                      the children copying their stdin to their stdout;  *)
(*   SpecAlias          parse_alias_value and the expansion of an alias;   *)
(*   SpecSession        lines handed to the executor by the REPL or by -c, *)
(*                      builtins and sourced files included;               *)
(*   SpecDispatch       the choice between builtin and external execution; *)
(*   SpecCd             the cd builtin on a small tree of directories;     *)
(*   SpecNest           builtin_source on script files that source script  *)
(*                      files;                                             *)
(*   SpecHistory        two History instances sharing one backing path,    *)
(*                      one step per system call, no system call failing;  *)
(*   SpecHistoryFair    the same instances under fair scheduling, system   *)
(*                      calls failing inside the lock-held sections;       *)
(*   SpecHistorySingle  one History instance alone on its path, with       *)
(*                      system calls that fail;                            *)
(*   SpecHistoryGrowth  one History from History::new on a stored file;    *)
(*   SpecHistoryLoad    History::new on every stored file;                 *)
(*   SpecHistoryMemory  a memory-only History beside a file-backed one;    *)
(*   SpecRepl           the interactive loop on its History.               *)
(* Each specification leaves the variables of the other components at      *)
(* their idle values.                                                      *)
(***************************************************************************)
EXTENDS Integers, Sequences, FiniteSets, TLC

-----------------------------------------------------------------------------
(* Option<T>: None is the empty sequence, Some(x) the one-element sequence. *)

None == <<>>

Some(x) == <<x>>

IsSome(o) == Len(o) = 1

-----------------------------------------------------------------------------
(***************************************************************************)
(*                               THE PARSER                                *)
(***************************************************************************)

VARIABLES
    ai_trigger,       \* Parser.ai_trigger, a sequence of characters
    input,            \* the line handed to Parser::parse
    ppc,              \* where parse is: "parse", "scan", "finish", "done"
    chars,            \* parse_commands: the trimmed input as a char vector
    i,                \* parse_commands: index of the next character (0-based)
    state,            \* parse_commands: the active ParserState
    prev_state,       \* parse_commands: the state a quote or escape returns to
    current_token,    \* parse_commands: the token accumulator
    current_command,  \* parse_commands: the command in progress
    commands,         \* parse_commands: the pipeline built so far
    result,           \* the ParseResult returned (NoResult until then)
    shape             \* how the caller wrote `input`: free text, or the parts
                      \* of a line of one of the shapes below

parserVars == <<ai_trigger, input, ppc, chars, i, state, prev_state,
                current_token, current_command, commands, result, shape>>

\* Longest input line explored.
MaxLen == 3

\* One representative character of every class the parser tells apart:
\* blank, other Unicode whitespace, the two quotes, backslash, the three
\* operator characters, `$` (escapable inside double quotes), the default
\* trigger `!` and an ordinary letter.
Alphabet == {" ", "\n", "'", "\"", "\\", "|", ">", "<", "$", "!", "a"}

\* The configured trigger prefixes explored (never empty: config.rs defaults
\* an empty prefix to "!").
Triggers == {<<"!">>, <<"!", "a">>}

RECURSIVE Strings(_)
Strings(n) ==
    IF n = 0 THEN {<<>>}
    ELSE LET shorter == Strings(n - 1)
         IN  shorter \cup {Append(s, c) : s \in {t \in shorter : Len(t) = n - 1},
                                           c \in Alphabet}

Inputs == Strings(MaxLen)

\* The strings over `alphabet` of at most n characters, and the non-empty ones.
RECURSIVE StringsOver(_, _)
StringsOver(alphabet, n) ==
    IF n = 0 THEN {<<>>}
    ELSE LET shorter == StringsOver(alphabet, n - 1)
         IN  shorter \cup {Append(s, c) : s \in {t \in shorter : Len(t) = n - 1},
                                           c \in alphabet}

WordsOver(alphabet, n) == StringsOver(alphabet, n) \ {<<>>}

\* char::is_whitespace, on the alphabet (tab kept for the parser's match arms).
IsWhitespace(c) == c \in {" ", "\t", "\n"}

\* The parser's own separator test: ' ' | '\t'.
IsBlank(c) == c \in {" ", "\t"}

RECURSIVE TrimStart(_)
TrimStart(s) ==
    IF s = <<>> THEN s
    ELSE IF IsWhitespace(Head(s)) THEN TrimStart(Tail(s)) ELSE s

RECURSIVE TrimEnd(_)
TrimEnd(s) ==
    IF s = <<>> THEN s
    ELSE IF IsWhitespace(s[Len(s)]) THEN TrimEnd(SubSeq(s, 1, Len(s) - 1)) ELSE s

\* A trim that knows only the blank, not every whitespace character.
TrimBlanksOnly(s) ==
    LET RECURSIVE L(_), R(_)
        L(t) == IF t = <<>> THEN t
                ELSE IF IsBlank(Head(t)) THEN L(Tail(t)) ELSE t
        R(t) == IF t = <<>> THEN t
                ELSE IF IsBlank(t[Len(t)]) THEN R(SubSeq(t, 1, Len(t) - 1)) ELSE t
    IN  R(L(s))

\* str::trim
Trim(s) == TrimEnd(TrimStart(s))

\* str::starts_with
StartsWith(s, prefix) ==
    /\ Len(prefix) <= Len(s)
    /\ SubSeq(s, 1, Len(prefix)) = prefix

\* &s[n..]
DropFirst(s, n) == SubSeq(s, n + 1, Len(s))

\* Command::default()
DefaultCommand ==
    [program |-> <<>>, args |-> <<>>, stdin_redirect |-> None,
     stdout_redirect |-> None, stdout_append |-> FALSE]

\* An emptiness test that takes no command for empty.
IsEmptyCommand_Never(cmd) == FALSE

\* Command::is_empty
IsEmptyCommand(cmd) == cmd.program = <<>>

\* ParseResult, as a record with one field per variant payload.
NoResult == [kind |-> "NoResult", commands |-> <<>>, query |-> <<>>, msg |-> <<>>]

Commands(cs) == [kind |-> "Commands", commands |-> cs, query |-> <<>>, msg |-> <<>>]

AIQuery(q) == [kind |-> "AIQuery", commands |-> <<>>, query |-> q, msg |-> <<>>]

Empty == [kind |-> "Empty", commands |-> <<>>, query |-> <<>>, msg |-> <<>>]

Error(m) == [kind |-> "Error", commands |-> <<>>, query |-> <<>>, msg |-> m]

\* The error messages of parse_commands, word by word.
MsgTrailingBackslash == <<"Syntax", "error:", "trailing", "backslash">>

MsgUnclosedQuote == <<"Unclosed", "quote">>

MsgPipe == <<"Syntax", "error:", "pipe", "without", "following", "command">>

MsgRedirectOut == <<"Syntax", "error:", "output", "redirection", "without", "file">>

MsgRedirectIn == <<"Syntax", "error:", "input", "redirection", "without", "file">>

\* str::contains, for a word of a message
Mentions(m, word) == \E k \in 1..Len(m) : m[k] = word

\* An add_token that takes every token for the program name.
add_token_OverwritesProgram(command, token, st) ==
    [command EXCEPT !.program = token]

\* Parser::add_token: the command after the token is added under `st`.
add_token(command, token, st) ==
    IF command.program = <<>> \/ st = "CommandStart"
    THEN [command EXCEPT !.program = token]
    ELSE [command EXCEPT !.args = Append(@, token)]

\* The token flush every operator and blank arm starts with.
FlushToken(command, token, st) ==
    IF token # <<>> THEN add_token(command, token, st) ELSE command


\* The locals of parse_commands as one record.
Machine ==
    [state |-> state, prev_state |-> prev_state, current_token |-> current_token,
     current_command |-> current_command, commands |-> commands, i |-> i]

\* chars[k] for the 0-based index k, None past the end.
CharAt(cs, k) == IF k + 1 <= Len(cs) THEN Some(cs[k + 1]) ELSE None

\* The arm for Idle | CommandStart | Argument.
ArmNormal(m, cs) ==
    LET c       == cs[m.i + 1]
        flushed == FlushToken(m.current_command, m.current_token, m.state)
    IN  CASE IsBlank(c) ->
               IF m.current_token # <<>>
               THEN [m EXCEPT !.current_command = flushed, !.current_token = <<>>,
                              !.state = "Argument", !.i = @ + 1]
               ELSE [m EXCEPT !.i = @ + 1]
          [] c = "'" ->
               [m EXCEPT !.prev_state = m.state, !.state = "SingleQuote", !.i = @ + 1]
          [] c = "\"" ->
               [m EXCEPT !.prev_state = m.state, !.state = "DoubleQuote", !.i = @ + 1]
          [] c = "\\" ->
               [m EXCEPT !.prev_state = m.state, !.state = "Escape", !.i = @ + 1]
          [] c = "|" ->
               IF ~IsEmptyCommand(flushed)
               THEN [m EXCEPT !.commands = Append(@, flushed),
                              !.current_command = DefaultCommand,
                              !.current_token = <<>>, !.state = "Pipe", !.i = @ + 1]
               ELSE [m EXCEPT !.current_command = flushed,
                              !.current_token = <<>>, !.state = "Pipe", !.i = @ + 1]
          [] c = ">" ->
               IF CharAt(cs, m.i + 1) = Some(">")
               THEN [m EXCEPT !.current_command = flushed, !.current_token = <<>>,
                              !.state = "RedirectAppend", !.i = @ + 2]
               ELSE [m EXCEPT !.current_command = flushed, !.current_token = <<>>,
                              !.state = "RedirectOut", !.i = @ + 1]
          [] c = "<" ->
               [m EXCEPT !.current_command = flushed, !.current_token = <<>>,
                         !.state = "RedirectIn", !.i = @ + 1]
          [] OTHER ->
               [m EXCEPT !.current_token = Append(@, c),
                         !.state = IF m.state = "Idle" THEN "CommandStart" ELSE @,
                         !.i = @ + 1]

\* A single-quote arm that keeps the closing quote in the token.
ArmSingleQuote_KeepsQuote(m, cs) ==
    LET c == cs[m.i + 1]
    IN  IF c = "'"
        THEN [m EXCEPT !.current_token = Append(@, c), !.state = m.prev_state,
                       !.i = @ + 1]
        ELSE [m EXCEPT !.current_token = Append(@, c), !.i = @ + 1]

ArmSingleQuote(m, cs) ==
    LET c == cs[m.i + 1]
    IN  IF c = "'"
        THEN [m EXCEPT !.state = m.prev_state, !.i = @ + 1]
        ELSE [m EXCEPT !.current_token = Append(@, c), !.i = @ + 1]

ArmDoubleQuote(m, cs) ==
    LET c    == cs[m.i + 1]
        next == CharAt(cs, m.i + 1)
    IN  IF c = "\""
        THEN [m EXCEPT !.state = m.prev_state, !.i = @ + 1]
        ELSE IF c = "\\" /\ IsSome(next)
        THEN IF next[1] \in {"\"", "\\", "$"}
             THEN [m EXCEPT !.current_token = Append(@, next[1]), !.i = @ + 2]
             ELSE [m EXCEPT !.current_token = Append(@, c), !.i = @ + 1]
        ELSE [m EXCEPT !.current_token = Append(@, c), !.i = @ + 1]

ArmEscape(m, cs) ==
    [m EXCEPT !.current_token = Append(@, cs[m.i + 1]),
              !.state = m.prev_state, !.i = @ + 1]

\* A Pipe arm that opens quotes and escapes as the normal arm does.
ArmPipe_OpensQuotes(m, cs) ==
    LET c == cs[m.i + 1]
    IN  CASE c = "'"  -> [m EXCEPT !.prev_state = m.state, !.state = "SingleQuote", !.i = @ + 1]
          [] c = "\"" -> [m EXCEPT !.prev_state = m.state, !.state = "DoubleQuote", !.i = @ + 1]
          [] c = "\\" -> [m EXCEPT !.prev_state = m.state, !.state = "Escape", !.i = @ + 1]
          [] IsWhitespace(c) -> [m EXCEPT !.i = @ + 1]
          [] OTHER -> [m EXCEPT !.current_token = Append(@, c),
                                !.state = "CommandStart", !.i = @ + 1]

ArmPipe(m, cs) ==
    LET c == cs[m.i + 1]
    IN  IF ~IsWhitespace(c)
        THEN [m EXCEPT !.current_token = Append(@, c),
                       !.state = "CommandStart", !.i = @ + 1]
        ELSE [m EXCEPT !.i = @ + 1]

\* Redirect-state arms that know the quotes but take a backslash literally.
ArmQuoteOrLiteral_BackslashLiteral(m, c) ==
    CASE c = "'"  -> [m EXCEPT !.prev_state = m.state, !.state = "SingleQuote", !.i = @ + 1]
      [] c = "\"" -> [m EXCEPT !.prev_state = m.state, !.state = "DoubleQuote", !.i = @ + 1]
      [] OTHER    -> [m EXCEPT !.current_token = Append(@, c), !.i = @ + 1]

\* The quote and escape arms shared by the three redirect states.
ArmQuoteOrLiteral(m, c) ==
    CASE c = "'"  -> [m EXCEPT !.prev_state = m.state, !.state = "SingleQuote", !.i = @ + 1]
      [] c = "\"" -> [m EXCEPT !.prev_state = m.state, !.state = "DoubleQuote", !.i = @ + 1]
      [] c = "\\" -> [m EXCEPT !.prev_state = m.state, !.state = "Escape", !.i = @ + 1]
      [] OTHER    -> [m EXCEPT !.current_token = Append(@, c), !.i = @ + 1]

\* An output-redirect arm that sets the append flag whatever the operator was.
ArmRedirectOut_AlwaysAppend(m, cs) ==
    LET c == cs[m.i + 1]
    IN  IF IsBlank(c)
        THEN IF m.current_token # <<>>
             THEN [m EXCEPT !.current_command.stdout_redirect = Some(m.current_token),
                            !.current_command.stdout_append = TRUE,
                            !.current_token = <<>>, !.state = "Argument", !.i = @ + 1]
             ELSE [m EXCEPT !.i = @ + 1]
        ELSE ArmQuoteOrLiteral(m, c)

\* The arm for RedirectOut | RedirectAppend.
ArmRedirectOut(m, cs) ==
    LET c == cs[m.i + 1]
    IN  IF IsBlank(c)
        THEN IF m.current_token # <<>>
             THEN [m EXCEPT !.current_command.stdout_redirect = Some(m.current_token),
                            !.current_command.stdout_append = (m.state = "RedirectAppend"),
                            !.current_token = <<>>, !.state = "Argument", !.i = @ + 1]
             ELSE [m EXCEPT !.i = @ + 1]
        ELSE ArmQuoteOrLiteral(m, c)

ArmRedirectIn(m, cs) ==
    LET c == cs[m.i + 1]
    IN  IF IsBlank(c)
        THEN IF m.current_token # <<>>
             THEN [m EXCEPT !.current_command.stdin_redirect = Some(m.current_token),
                            !.current_token = <<>>, !.state = "Argument", !.i = @ + 1]
             ELSE [m EXCEPT !.i = @ + 1]
        ELSE ArmQuoteOrLiteral(m, c)

\* One turn of the while loop of parse_commands (state is not AIMode).
Step(m, cs) ==
    CASE m.state \in {"Idle", "CommandStart", "Argument"} -> ArmNormal(m, cs)
      [] m.state = "SingleQuote"                          -> ArmSingleQuote(m, cs)
      [] m.state = "DoubleQuote"                          -> ArmDoubleQuote(m, cs)
      [] m.state = "Escape"                               -> ArmEscape(m, cs)
      [] m.state = "Pipe"                                 -> ArmPipe(m, cs)
      [] m.state \in {"RedirectOut", "RedirectAppend"}    -> ArmRedirectOut(m, cs)
      [] m.state = "RedirectIn"                           -> ArmRedirectIn(m, cs)

\* "Handle remaining token" and "Add last command if not empty".
FlushRemaining(m) ==
    LET m1 == IF m.current_token = <<>> THEN m
              ELSE CASE m.state \in {"RedirectOut", "RedirectAppend"} ->
                          [m EXCEPT !.current_command.stdout_redirect = Some(m.current_token),
                                    !.current_command.stdout_append = (m.state = "RedirectAppend"),
                                    !.state = "Argument"]
                     [] m.state = "RedirectIn" ->
                          [m EXCEPT !.current_command.stdin_redirect = Some(m.current_token),
                                    !.state = "Argument"]
                     [] m.state = "Escape" ->
                          [m EXCEPT !.current_command =
                                        add_token(@, m.current_token, m.prev_state)]
                     [] OTHER ->
                          [m EXCEPT !.current_command =
                                        add_token(@, m.current_token, m.state)]
    IN  IF ~IsEmptyCommand(m1.current_command)
        THEN [m1 EXCEPT !.commands = Append(@, m1.current_command)]
        ELSE m1

\* A final-state check that forgets the dangling pipe.
FinalStateError_NoPipeCheck(st) ==
    CASE st = "Escape"                              -> Some(MsgTrailingBackslash)
      [] st \in {"SingleQuote", "DoubleQuote"}      -> Some(MsgUnclosedQuote)
      [] st \in {"RedirectOut", "RedirectAppend"}   -> Some(MsgRedirectOut)
      [] st = "RedirectIn"                          -> Some(MsgRedirectIn)
      [] OTHER                                      -> None

\* A final-state check that forgets the pending escape.
FinalStateError_NoEscapeCheck(st) ==
    CASE st \in {"SingleQuote", "DoubleQuote"}      -> Some(MsgUnclosedQuote)
      [] st = "Pipe"                                -> Some(MsgPipe)
      [] st \in {"RedirectOut", "RedirectAppend"}   -> Some(MsgRedirectOut)
      [] st = "RedirectIn"                          -> Some(MsgRedirectIn)
      [] OTHER                                      -> None

\* The error the final state stands for, if any: trailing backslash, unclosed
\* quote, then the match on Pipe / RedirectOut | RedirectAppend / RedirectIn.
FinalStateError(st) ==
    CASE st = "Escape"                              -> Some(MsgTrailingBackslash)
      [] st \in {"SingleQuote", "DoubleQuote"}      -> Some(MsgUnclosedQuote)
      [] st = "Pipe"                                -> Some(MsgPipe)
      [] st \in {"RedirectOut", "RedirectAppend"}   -> Some(MsgRedirectOut)
      [] st = "RedirectIn"                          -> Some(MsgRedirectIn)
      [] OTHER                                      -> None

\* What parse_commands returns once the loop has ended.
Finalize(m) ==
    LET m2  == FlushRemaining(m)
        err == FinalStateError(m2.state)
    IN  IF IsSome(err) THEN Error(err[1])
        ELSE IF m2.commands = <<>> THEN Empty
        ELSE Commands(m2.commands)

\* A parse that hands the text after the trigger over untrimmed.
ParseHead_QueryNotTrimmed(trigger, line) ==
    LET trimmed == Trim(line)
    IN  IF trimmed = <<>> THEN Empty
        ELSE IF StartsWith(trimmed, trigger)
        THEN AIQuery(DropFirst(trimmed, Len(trigger)))
        ELSE NoResult

\* Parser::parse up to the call of parse_commands: the result it returns by
\* itself, NoResult when the line goes on to parse_commands.
ParseHead(trigger, line) ==
    LET trimmed == Trim(line)
    IN  IF trimmed = <<>> THEN Empty
        ELSE IF StartsWith(trimmed, trigger)
        THEN AIQuery(Trim(DropFirst(trimmed, Len(trigger))))
        ELSE NoResult

\* The abort of unreachable!().
Panic == [kind |-> "Panic", commands |-> <<>>, query |-> <<>>, msg |-> <<>>]

\* The locals of parse_commands before the loop.
StartMachine ==
    [state |-> "Idle", prev_state |-> "Idle", current_token |-> <<>>,
     current_command |-> DefaultCommand, commands |-> <<>>, i |-> 0]

\* The while loop of parse_commands, run to its end.
RECURSIVE RunLoop(_, _)
RunLoop(m, cs) == IF m.i < Len(cs) THEN RunLoop(Step(m, cs), cs) ELSE m

\* Parser::parse_commands as a function of the trimmed line.
parse_commands(cs) == Finalize(RunLoop(StartMachine, cs))

\* Parser::parse as a function of the trigger and the line.
ParseLine(trigger, line) ==
    LET head == ParseHead(trigger, line)
    IN  IF head # NoResult THEN head ELSE parse_commands(Trim(line))

-----------------------------------------------------------------------------
(* The lines explored: free text over the alphabet, and lines written to a *)
(* shape, whose parts the parser's result is compared with.                 *)

\* Longest word between quotes, and longest redirect target word.
MaxWord == 2

\* Most commands in a pipeline line.
MaxPipe == 3

\* Longest redirect target text with quotes and escapes.
MaxTarget == 3

FreeText == [kind |-> "free"]

\* What stands between quotes: blanks, the operator characters, a letter.
QuotedWords == WordsOver({" ", "|", ">", "<", "a"}, MaxWord)

\* cmd 'w1' "w2"
QuotedShapes == {[kind |-> "quoted", w1 |-> w1, w2 |-> w2] :
                    w1 \in QuotedWords, w2 \in QuotedWords}

QuotedLine(sh) ==
    <<"c", "m", "d", " ", "'">> \o sh.w1 \o <<"'", " ", "\"">> \o sh.w2 \o <<"\"">>

\* A simple command: a program and at most one argument, both plain words.
SimpleCommands == {<<p>> : p \in {<<"a">>, <<"b">>}}
                  \cup {<<p, q>> : p \in {<<"a">>, <<"b">>}, q \in {<<"a">>, <<"b">>}}

RECURSIVE Pipelines(_)
Pipelines(n) ==
    IF n = 0 THEN {<<>>}
    ELSE LET shorter == Pipelines(n - 1)
         IN  shorter \cup {Append(s, c) : s \in {t \in shorter : Len(t) = n - 1},
                                           c \in SimpleCommands}

\* n >= 1 simple commands joined by `|` or by ` | `.
PipelineShapes == {[kind |-> "pipeline", segs |-> segs, sep |-> sep] :
                      segs \in Pipelines(MaxPipe) \ {<<>>},
                      sep \in {<<"|">>, <<" ", "|", " ">>}}

\* The words of one command, a blank between them.
RECURSIVE JoinWords(_)
JoinWords(ws) ==
    IF Len(ws) = 1 THEN ws[1] ELSE ws[1] \o <<" ">> \o JoinWords(Tail(ws))

RECURSIVE JoinSegments(_, _)
JoinSegments(segs, sep) ==
    IF Len(segs) = 1 THEN JoinWords(segs[1])
    ELSE JoinWords(segs[1]) \o sep \o JoinSegments(Tail(segs), sep)

PipelineLine(sh) == JoinSegments(sh.segs, sh.sep)

\* a [b] > t [b], with > or >>, with and without blanks around the operator.
RedirectShapes ==
    {[kind |-> "redirect", before |-> before, lead |-> lead, op |-> op,
      gap |-> gap, t |-> t, after |-> after] :
        before \in {<<>>, <<<<"b">>>>}, lead \in {<<>>, <<" ">>},
        op \in {<<">">>, <<">", ">">>}, gap \in {<<>>, <<" ">>},
        t \in WordsOver({"a", "b"}, MaxWord), after \in {<<>>, <<<<"b">>>>}}

RedirectLine(sh) ==
    JoinWords(<<<<"a">>>> \o sh.before) \o sh.lead \o sh.op \o sh.gap \o sh.t
        \o (IF sh.after = <<>> THEN <<>> ELSE <<" ">> \o JoinWords(sh.after))

\* What a target may be written with: a letter, a blank, the quotes, the
\* backslash, an operator character and `$`.
TargetTexts == WordsOver({"a", " ", "'", "\"", "\\", "|", "$"}, MaxTarget)

\* a > T, a >> T and a < T
TargetShapes == {[kind |-> "target", op |-> op, text |-> text] :
                    op \in {<<">">>, <<">", ">">>, <<"<">>}, text \in TargetTexts}

TargetLine(sh) == <<"a", " ">> \o sh.op \o sh.text

\* Most segments in a line of segments with redirects.
MaxRedirSegments == 2

\* What segment j is written with: its own program, argument and redirect
\* target, told apart from those of the other segments by the digit.
Digit(j) == CASE j = 1 -> "1" [] j = 2 -> "2" [] j = 3 -> "3" [] OTHER -> "4"

ProgOf(j) == <<"p", Digit(j)>>

ArgOf(j) == <<"x", Digit(j)>>

TargetOf(j) == <<"t", Digit(j)>>

\* How a segment is written: with or without a program, an argument after
\* the program, a redirect or none.
SegmentForms ==
    {f \in [prog : BOOLEAN, arg : BOOLEAN, redir : {<<>>, <<">">>, <<">", ">">>, <<"<">>}] :
        f.arg => f.prog}

RECURSIVE FormSeqs(_)
FormSeqs(n) ==
    IF n = 0 THEN {<<>>}
    ELSE LET shorter == FormSeqs(n - 1)
         IN  shorter \cup {Append(fs, f) : fs \in {t \in shorter : Len(t) = n - 1},
                                            f \in SegmentForms}

\* p1 x1 > t1 | p2 x2 < t2, each part there or not
SegmentShapes == {[kind |-> "segments", forms |-> fs] :
                     fs \in FormSeqs(MaxRedirSegments) \ {<<>>}}

\* The text of segment j, a blank before each part.
SegmentText(f, j) ==
    (IF f.prog THEN <<" ">> \o ProgOf(j) ELSE <<>>)
        \o (IF f.arg THEN <<" ">> \o ArgOf(j) ELSE <<>>)
        \o (IF f.redir # <<>> THEN <<" ">> \o f.redir \o <<" ">> \o TargetOf(j) ELSE <<>>)

RECURSIVE SegmentsText(_, _)
SegmentsText(fs, j) ==
    IF j > Len(fs) THEN <<>>
    ELSE SegmentText(fs[j], j)
            \o (IF j < Len(fs) THEN <<" ", "|">> ELSE <<>>)
            \o SegmentsText(fs, j + 1)

SegmentsLine(sh) == SegmentsText(sh.forms, 1)

LineOf(sh) ==
    CASE sh.kind = "quoted"   -> QuotedLine(sh)
      [] sh.kind = "pipeline" -> PipelineLine(sh)
      [] sh.kind = "redirect" -> RedirectLine(sh)
      [] sh.kind = "target"   -> TargetLine(sh)
      [] sh.kind = "segments" -> SegmentsLine(sh)

-----------------------------------------------------------------------------
(* The parser's actions. *)

ParserInit ==
    /\ ai_trigger \in Triggers
    /\ input \in Inputs
    /\ ppc = "parse"
    /\ chars = <<>>
    /\ i = 0
    /\ state = "Idle"
    /\ prev_state = "Idle"
    /\ current_token = <<>>
    /\ current_command = DefaultCommand
    /\ commands = <<>>
    /\ result = NoResult
    /\ shape = FreeText

\* A parser and a line written to one of the shapes.
ParserInitLines ==
    /\ ai_trigger \in Triggers
    /\ \/ shape \in QuotedShapes
       \/ shape \in PipelineShapes
       \/ shape \in RedirectShapes
       \/ shape \in TargetShapes
       \/ shape \in SegmentShapes
    /\ input = LineOf(shape)
    /\ ppc = "parse"
    /\ chars = <<>>
    /\ i = 0
    /\ state = "Idle"
    /\ prev_state = "Idle"
    /\ current_token = <<>>
    /\ current_command = DefaultCommand
    /\ commands = <<>>
    /\ result = NoResult

\* The parser when another component is being explored.
ParserIdle ==
    /\ ai_trigger = <<"!">>
    /\ input = <<>>
    /\ ppc = "off"
    /\ chars = <<>>
    /\ i = 0
    /\ state = "Idle"
    /\ prev_state = "Idle"
    /\ current_token = <<>>
    /\ current_command = DefaultCommand
    /\ commands = <<>>
    /\ result = NoResult
    /\ shape = FreeText

\* Parser::parse: trim, the empty test, the trigger test, or on to
\* parse_commands with its locals initialised.
Parse ==
    /\ ppc = "parse"
    /\ LET head == ParseHead(ai_trigger, input)
       IN  IF head # NoResult
           THEN /\ result' = head
                /\ ppc' = "done"
                /\ chars' = chars
           ELSE /\ result' = result
                /\ ppc' = "scan"
                /\ chars' = Trim(input)
    /\ UNCHANGED <<ai_trigger, input, i, state, prev_state, current_token,
                   current_command, commands, shape>>

\* One turn of `while i < chars.len()`.
ScanChar ==
    /\ ppc = "scan"
    /\ i < Len(chars)
    /\ IF state = "AIMode"
       THEN /\ result' = Panic
            /\ ppc' = "done"
            /\ UNCHANGED <<i, state, prev_state, current_token, current_command,
                           commands>>
       ELSE LET m == Step(Machine, chars)
            IN  /\ i' = m.i
                /\ state' = m.state
                /\ prev_state' = m.prev_state
                /\ current_token' = m.current_token
                /\ current_command' = m.current_command
                /\ commands' = m.commands
                /\ UNCHANGED <<result, ppc>>
    /\ UNCHANGED <<ai_trigger, input, chars, shape>>

\* The code after the loop: the remaining token, the last command, the checks
\* of the final state, and the result.
Finish ==
    /\ ppc = "scan"
    /\ i >= Len(chars)
    /\ LET m == FlushRemaining(Machine)
       IN  /\ state' = m.state
           /\ current_command' = m.current_command
           /\ commands' = m.commands
    /\ result' = Finalize(Machine)
    /\ ppc' = "done"
    /\ UNCHANGED <<ai_trigger, input, chars, i, prev_state, current_token, shape>>

-----------------------------------------------------------------------------
(* The parser's claims. *)

AllWhitespace(s) == \A k \in 1..Len(s) : IsWhitespace(s[k])

\* C8: every input line that consists only of whitespace (the empty line
\* included) parses to Empty.
C8_WhitespaceIsEmpty ==
    (ppc = "done" /\ AllWhitespace(input)) => result = Empty

\* A line of two whitespace characters, one of them not a blank, was parsed.
C8_Witness ==
    /\ ppc = "done"
    /\ Len(input) >= 2
    /\ AllWhitespace(input)
    /\ \E k \in 1..Len(input) : ~IsBlank(input[k])
    /\ result = Empty

\* The line is whitespace, then the trigger prefix at position j + 1, then
\* `rest`.
TriggerAt(line, trigger, j) ==
    /\ j + Len(trigger) <= Len(line)
    /\ AllWhitespace(SubSeq(line, 1, j))
    /\ SubSeq(line, j + 1, j + Len(trigger)) = trigger

\* q is `text` without its leading and trailing whitespace, said without trim.
IsCoreOf(q, text) ==
    IF AllWhitespace(text) THEN q = <<>>
    ELSE \E k \in 0..Len(text) :
            /\ k + Len(q) <= Len(text)
            /\ q # <<>>
            /\ SubSeq(text, k + 1, k + Len(q)) = q
            /\ AllWhitespace(SubSeq(text, 1, k))
            /\ AllWhitespace(SubSeq(text, k + Len(q) + 1, Len(text)))
            /\ ~IsWhitespace(q[1])
            /\ ~IsWhitespace(q[Len(q)])

\* C9: a line whose trimmed text begins with the trigger prefix parses to
\* AIQuery carrying exactly the text after the prefix without its surrounding
\* whitespace, never to Commands or Error, whatever quotes, pipes, redirects
\* or backslashes follow the prefix.
C9_TriggerIsAIQuery ==
    \A j \in 0..Len(input) :
        (ppc = "done" /\ TriggerAt(input, ai_trigger, j)) =>
            /\ result.kind = "AIQuery"
            /\ IsCoreOf(result.query,
                        SubSeq(input, j + Len(ai_trigger) + 1, Len(input)))

\* A query that keeps a metacharacter and loses the whitespace around it.
C9_Witness ==
    /\ ppc = "done"
    /\ result.kind = "AIQuery"
    /\ Len(result.query) < Len(input) - Len(ai_trigger)
    /\ \E k \in 1..Len(result.query) :
          result.query[k] \in {"'", "\"", "\\", "|", ">", "<"}

\* The line went through parse_commands and is fully read.
Scanned == ppc = "done" /\ chars # <<>> /\ result.kind # "Panic"

\* The line has no quote and no backslash: every operator character in it is
\* unquoted and unescaped.
NoQuoting(s) == \A k \in 1..Len(s) : s[k] \notin {"'", "\"", "\\"}

\* C10 as stated: an input that ends with an operator character (no token
\* after it) yields Error, mentioning "pipe" for a trailing pipe, output
\* "redirection" for a trailing > or >>, input "redirection" for a trailing <.
C10_Original ==
    (Scanned /\ NoQuoting(chars)) =>
        /\ chars[Len(chars)] = "|" =>
              result.kind = "Error" /\ Mentions(result.msg, "pipe")
        /\ chars[Len(chars)] = ">" =>
              /\ result.kind = "Error"
              /\ Mentions(result.msg, "output") /\ Mentions(result.msg, "redirection")
        /\ chars[Len(chars)] = "<" =>
              /\ result.kind = "Error"
              /\ Mentions(result.msg, "input") /\ Mentions(result.msg, "redirection")

\* C10, amended: when the scan ends in the Pipe, RedirectOut, RedirectAppend
\* or RedirectIn state with no token accumulated (the operator was read as an
\* operator, in the Idle, CommandStart or Argument state, and no token
\* follows it), the result is Error, never Commands: mentioning "pipe" after
\* a pipe, output "redirection" after > or >>, input "redirection" after <,
\* three pairwise distinct messages.
C10_DanglingOperator ==
    (Scanned /\ current_token = <<>>) =>
        /\ state = "Pipe" =>
              result.kind = "Error" /\ Mentions(result.msg, "pipe")
        /\ state \in {"RedirectOut", "RedirectAppend"} =>
              /\ result.kind = "Error"
              /\ Mentions(result.msg, "output") /\ Mentions(result.msg, "redirection")
              /\ ~Mentions(result.msg, "pipe") /\ ~Mentions(result.msg, "input")
        /\ state = "RedirectIn" =>
              /\ result.kind = "Error"
              /\ Mentions(result.msg, "input") /\ Mentions(result.msg, "redirection")
              /\ ~Mentions(result.msg, "pipe") /\ ~Mentions(result.msg, "output")

\* `a |` was parsed: a command, then a pipe with nothing after it.
C10_Witness ==
    /\ Scanned
    /\ state = "Pipe"
    /\ current_token = <<>>
    /\ Len(chars) >= 2
    /\ chars[Len(chars)] = "|"
    /\ chars[1] = "a"
    /\ result.kind = "Error"

\* The line ends with a backslash and has no quote and no other backslash
\* before it: the backslash is unquoted and has nothing after it to escape.
EndsWithBareBackslash(s) ==
    /\ s # <<>>
    /\ s[Len(s)] = "\\"
    /\ NoQuoting(SubSeq(s, 1, Len(s) - 1))

\* The text before the final backslash is a pipe followed by whitespace only.
BackslashAfterPipe(s) ==
    LET before == TrimEnd(SubSeq(s, 1, Len(s) - 1))
    IN  before # <<>> /\ before[Len(before)] = "|"

Plain(prog, args) == [DefaultCommand EXCEPT !.program = prog, !.args = args]

C13_PipelineKeepsCommands ==
    (ppc = "done" /\ shape.kind = "pipeline") =>
        result = Commands([k \in 1..Len(shape.segs) |->
                              Plain(shape.segs[k][1], Tail(shape.segs[k]))])

\* A line of three commands, the first two different and with an argument,
\* was parsed to three commands.
C13_Witness ==
    /\ ppc = "done"
    /\ shape.kind = "pipeline"
    /\ Len(shape.segs) = 3
    /\ Len(shape.segs[1]) = 2
    /\ Len(shape.segs[2]) = 2
    /\ shape.segs[1] # shape.segs[2]
    /\ result.kind = "Commands"
    /\ Len(result.commands) = 3
    /\ result.commands[2].program = shape.segs[2][1]
    /\ result.commands[2].args = Tail(shape.segs[2])

\* C14: an output redirection followed by a target token t leaves the parsed
\* command with stdout_redirect = Some(t) and with stdout_append true exactly
\* when the operator was >> (false for >); the target is never added to args.
C14_OutputRedirect ==
    (ppc = "done" /\ shape.kind = "redirect") =>
        result = Commands(<<[Plain(<<"a">>, shape.before \o shape.after)
                                EXCEPT !.stdout_redirect = Some(shape.t),
                                       !.stdout_append = (shape.op = <<">", ">">>)]>>)

\* a b >>t b was parsed: an argument on either side of an appending
\* redirection written without a blank after the operator.
C14_Witness ==
    /\ ppc = "done"
    /\ shape.kind = "redirect"
    /\ shape.op = <<">", ">">>
    /\ shape.gap = <<>>
    /\ shape.before # <<>>
    /\ shape.after # <<>>
    /\ result.kind = "Commands"
    /\ result.commands[1].stdout_redirect = Some(shape.t)
    /\ result.commands[1].stdout_append
    /\ result.commands[1].args = <<<<"b">>, <<"b">>>>


\* The same text written as the only argument of the command a.
AsArgument(text) == parse_commands(Trim(<<"a", " ">> \o text))

\* The text, written as an argument, is one token of one command.
IsOneArgument(text) ==
    LET r == AsArgument(text)
    IN  /\ r.kind = "Commands"
        /\ Len(r.commands) = 1
        /\ Len(r.commands[1].args) = 1
        /\ r.commands[1] = Plain(<<"a">>, r.commands[1].args)

\* The command a with `token` in the redirect field of the operator `op`.
Redirected(op, token) ==
    CASE op = <<">">>      -> [Plain(<<"a">>, <<>>) EXCEPT !.stdout_redirect = Some(token)]
      [] op = <<">", ">">> -> [Plain(<<"a">>, <<>>) EXCEPT !.stdout_redirect = Some(token),
                                                           !.stdout_append = TRUE]
      [] op = <<"<">>      -> [Plain(<<"a">>, <<>>) EXCEPT !.stdin_redirect = Some(token)]

\* C15: a redirection target written with single quotes, double quotes or
\* backslash escapes is tokenized exactly as the same text is as an argument
\* (quotes removed, embedded blanks kept): the redirect field receives the
\* string args would have received, and (operator characters aside) a quote
\* left open or a backslash left without a character is the same error in
\* both places.
C15_TargetTokenizedAsArgument ==
    (ppc = "done" /\ shape.kind = "target") =>
        /\ IsOneArgument(shape.text) =>
              result = Commands(<<Redirected(shape.op,
                                             AsArgument(shape.text).commands[1].args[1])>>)
        /\ (/\ \A k \in 1..Len(shape.text) : shape.text[k] # "|"
            /\ AsArgument(shape.text).kind = "Error"
            /\ AsArgument(shape.text).msg \in {MsgUnclosedQuote, MsgTrailingBackslash}) =>
              result = AsArgument(shape.text)

\* a >' ' was parsed: the target is the blank between the quotes.
C15_Witness ==
    /\ ppc = "done"
    /\ shape.kind = "target"
    /\ shape.op = <<">">>
    /\ shape.text = <<"'", " ", "'">>
    /\ IsOneArgument(shape.text)
    /\ result.kind = "Commands"
    /\ result.commands[1].stdout_redirect = Some(<<" ">>)
    /\ result.commands[1].args = <<>>

\* The states in which a quote or an escape is open.
QuoteStates == {"SingleQuote", "DoubleQuote", "Escape"}

\* The step hands the token in progress over to add_token: at a blank or an
\* operator in the loop, or in the code after the loop.
TokenFlushed ==
    /\ ppc = "scan"
    /\ current_token # <<>>
    /\ current_token' = <<>> \/ ppc' = "done"

\* The command that has the token after the step: the one just pushed, or
\* the command in progress.
Receiver ==
    IF commands' # commands THEN commands'[Len(commands')] ELSE current_command'

\* The token in progress is the first of its command: the one that began
\* the line or followed a pipe.
FirstToken ==
    \/ state = "CommandStart"
    \/ state \in QuoteStates /\ prev_state = "CommandStart"

\* C31: every command in a Commands result has a non-empty program, a
\* Commands result is never an empty list, and the first token after a pipe
\* always becomes the program of a new command, never an argument of the
\* previous one: after a pipe no program and no argument is held, the first
\* token stays the first token until it is handed over, it then becomes the
\* program of a command with no arguments, and the commands pushed before
\* stay as they were.
C31_ProgramsNeverEmpty ==
    /\ [](result.kind = "Commands" =>
            /\ result.commands # <<>>
            /\ \A k \in 1..Len(result.commands) : result.commands[k].program # <<>>)
    /\ [](state = "Pipe" =>
            /\ current_token = <<>>
            /\ current_command.program = <<>>
            /\ current_command.args = <<>>)
    /\ [][ /\ Len(commands') >= Len(commands)
           /\ SubSeq(commands', 1, Len(commands)) = commands
           /\ (state = "Pipe" /\ state' # "Pipe") =>
                 (state' = "CommandStart" /\ current_token' # <<>>)
           /\ (ppc = "scan" /\ FirstToken /\ ~TokenFlushed /\ ppc' = "scan") => FirstToken'
           /\ (state = "CommandStart" /\ TokenFlushed) =>
                 /\ Receiver.program = current_token
                 /\ Receiver.args = <<>> ]_parserVars

\* What a command holds of the text written for segment j.
HeldOf(cmd, j) ==
    {w \in {ProgOf(j), ArgOf(j), TargetOf(j)} :
        \/ cmd.program = w
        \/ \E k \in 1..Len(cmd.args) : cmd.args[k] = w
        \/ cmd.stdin_redirect = Some(w)
        \/ cmd.stdout_redirect = Some(w)}

\* The command holds nothing but what is written in segment j.
BelongsTo(cmd, j) ==
    /\ HeldOf(cmd, j) # {}
    /\ \A k \in 1..Len(shape.forms) : k # j => HeldOf(cmd, k) = {}
    /\ cmd.stdout_append => shape.forms[j].redir = <<">", ">">>

\* C33 as stated: every command in a Commands result carries only the
\* arguments and redirections written in its own pipeline segment: no redirect
\* target, append flag or argument from the text on one side of a pipe ends up
\* in the command on the other side, also when that text names no program.
C33_Original ==
    (ppc = "done" /\ shape.kind = "segments" /\ result.kind = "Commands") =>
        \A n \in 1..Len(result.commands) :
            \E j \in 1..Len(shape.forms) : BelongsTo(result.commands[n], j)

\* The line `> t1 | p2` was parsed to the one command p2 with its output
\* redirected to t1.
C33_Witness ==
    /\ ppc = "done"
    /\ shape.kind = "segments"
    /\ input = <<" ", ">", " ", "t", "1", " ", "|", " ", "p", "2">>
    /\ result.kind = "Commands"
    /\ Len(result.commands) = 1
    /\ result.commands[1].program = ProgOf(2)
    /\ result.commands[1].stdout_redirect = Some(TargetOf(1))

\* The commands of lines whose every segment names a program keep to their
\* own segments.
C33_WithPrograms ==
    (ppc = "done" /\ shape.kind = "segments" /\ result.kind = "Commands"
        /\ \A j \in 1..Len(shape.forms) : shape.forms[j].prog) =>
        /\ Len(result.commands) = Len(shape.forms)
        /\ \A j \in 1..Len(shape.forms) : BelongsTo(result.commands[j], j)

\* The states a quote or an escape may return to.
ReturnStates ==
    {"Idle", "CommandStart", "Argument", "RedirectOut", "RedirectAppend", "RedirectIn"}

\* C40: at every step of parse_commands on any input, the state is never
\* AIMode and the remembered return state (prev_state) is one of Idle,
\* CommandStart, Argument, RedirectOut, RedirectAppend, RedirectIn: leaving a
\* quote or an escape never lands in a quote, escape or Pipe state, and the
\* unreachable AIMode arm is never executed.
C40_ReturnStates ==
    /\ [](state # "AIMode" /\ prev_state \in ReturnStates /\ result # Panic)
    /\ [][ (state \in QuoteStates /\ state' # state) =>
              (state' = prev_state /\ state' \in ReturnStates) ]_parserVars

\* In `>''` the quote opened after the redirect operator has been closed:
\* the parser is back in RedirectOut.
C40_Witness ==
    /\ ppc = "scan"
    /\ chars = <<">", "'", "'">>
    /\ i = 3
    /\ state = "RedirectOut"
    /\ prev_state = "RedirectOut"

\* The line `a|a` was parsed to two commands.
C31_Witness ==
    /\ ppc = "done"
    /\ input = <<"a", "|", "a">>
    /\ result.kind = "Commands"
    /\ Len(result.commands) = 2
    /\ result.commands[2].program = <<"a">>
    /\ result.commands[2].args = <<>>

-----------------------------------------------------------------------------
(***************************************************************************)
(*                              THE EXECUTOR                               *)
(***************************************************************************)

VARIABLES
    epc,             \* where execute_pipeline is: "idle", "spawn", "wait", "done"
    pipeline,        \* the segments of the `commands` argument read so far
    nsegments,       \* commands.len()
    children,        \* execute_external_pipeline: Vec<Child>, as indices into procs
    prev_stdout,     \* execute_external_pipeline: the pipe read end held over
    last_status,     \* execute_external_pipeline: Option<ExitStatus>
    last_exit_code,  \* Executor.last_exit_code
    exec_result,     \* what execute_pipeline returned (NoExec until then)
    procs            \* the operating system's view of every process spawned
                     \* for this pipeline, in spawn order

executorVars == <<epc, pipeline, nsegments, children, prev_stdout, last_status,
                  last_exit_code, exec_result, procs>>

\* Longest pipeline explored.
MaxSegments == 3

\* The exit codes a child may exit with.
ExitCodes == {0, 1}

\* Programs a segment may name: one that spawns, one that does not exist.
Programs == {"prog", "missing"}

\* Redirect targets: a file that opens, a path that cannot be opened.
Files == {"file", "nofile"}

Redirects == {None} \cup {Some(f) : f \in Files}

\* The segments (parser::Command) a pipeline may hold.
Segments ==
    {cmd \in [program : Programs, stdin_redirect : Redirects,
              stdout_redirect : Redirects, stdout_append : BOOLEAN] :
        cmd.stdout_append => IsSome(cmd.stdout_redirect)}

\* File::open / File::create / OpenOptions::open on a redirect target.
OpenSucceeds(f) == f = "file"

\* Command::spawn on a program.
SpawnSucceeds(program) == program = "prog"

\* ExitStatus: exited with a code, or terminated by a signal (code() is None).
Exited(code) == [signaled |-> FALSE, code |-> code]

Signaled == [signaled |-> TRUE, code |-> 0]

\* ExitStatus::code
StatusCode(st) == IF st.signaled THEN None ELSE Some(st.code)

\* What a standard stream of a child is bound to: a file opened for the
\* redirect, the stream of the shell itself, or a pipe.  A pipe on stdin is
\* named by the child (index into procs) that writes to it.
ToFile(f, append) == [kind |-> "file", file |-> f, append |-> append, writer |-> 0]

Inherit == [kind |-> "inherit", file |-> "", append |-> FALSE, writer |-> 0]

Piped == [kind |-> "pipe", file |-> "", append |-> FALSE, writer |-> 0]

PipeFrom(k) == [kind |-> "pipe", file |-> "", append |-> FALSE, writer |-> k]

\* process.stdin(..): the redirect file, else the shell's stdin for the first
\* segment, else the read end taken from prev_stdout; with nothing in
\* prev_stdout no stdin is set, and Command::spawn then inherits it.
StdinOf(cmd, is_first, prev) ==
    IF IsSome(cmd.stdin_redirect) THEN ToFile(cmd.stdin_redirect[1], FALSE)
    ELSE IF is_first THEN Inherit
    ELSE IF IsSome(prev) THEN PipeFrom(prev[1])
    ELSE Inherit

\* process.stdout(..): the redirect file, appended to or truncated, else the
\* shell's stdout for the last segment, else a new pipe.
StdoutOf(cmd, is_last) ==
    IF IsSome(cmd.stdout_redirect) THEN ToFile(cmd.stdout_redirect[1], cmd.stdout_append)
    ELSE IF is_last THEN Inherit
    ELSE Piped

\* process.stderr(Stdio::inherit())
StderrOf(cmd) == Inherit

\* A process: running, a zombie (terminated, not yet waited on) or reaped,
\* with the bindings it was spawned with.
Running(stdin, stdout, stderr) ==
    [st |-> "running", status |-> Exited(0),
     stdin |-> stdin, stdout |-> stdout, stderr |-> stderr]

\* Result<ExecutionResult>
NoExec == [kind |-> "NoExec", exit_code |-> 0]

ExecOk(code) == [kind |-> "Ok", exit_code |-> code]

ExecErr == [kind |-> "Err", exit_code |-> 0]

\* Child::kill then Child::wait on one process: a running process is killed,
\* a zombie keeps the status it terminated with; either way it is reaped.
KillAndWait(proc) ==
    IF proc.st = "running" THEN [proc EXCEPT !.st = "reaped", !.status = Signaled]
    ELSE [proc EXCEPT !.st = "reaped"]

\* A cleanup that forgets the children it was given.
cleanup_children_Forgets(ps, cs) == ps

\* Executor::cleanup_children: every process of `cs` killed and waited on.
cleanup_children(ps, cs) ==
    [k \in DOMAIN ps |->
        IF \E n \in 1..Len(cs) : cs[n] = k THEN KillAndWait(ps[k]) ELSE ps[k]]

\* How building segment `cmd` ends: at the stdin redirect, at the stdout
\* redirect, at spawn, or with a child.
BuildOutcome(cmd) ==
    IF IsSome(cmd.stdin_redirect) /\ ~OpenSucceeds(cmd.stdin_redirect[1])
    THEN "stdin_open_failed"
    ELSE IF IsSome(cmd.stdout_redirect) /\ ~OpenSucceeds(cmd.stdout_redirect[1])
    THEN "stdout_open_failed"
    ELSE IF ~SpawnSucceeds(cmd.program) THEN "spawn_failed"
    ELSE "spawned"

\* An exit code in the manner of `pipefail`: any stage that did not exit with
\* 0 fails the pipeline.
PipelineExitCode_AnyStage(ps, last) ==
    IF \E k \in 1..Len(ps) : ps[k].status # Exited(0) THEN 1 ELSE 0

\* last_status.and_then(|s| s.code()).unwrap_or(1); `ps`, the statuses of the
\* earlier children, is not looked at.
PipelineExitCode(ps, last) ==
    IF IsSome(last) /\ IsSome(StatusCode(last[1])) THEN StatusCode(last[1])[1]
    ELSE 1

-----------------------------------------------------------------------------
(* The executor's actions. *)

ExecutorInit ==
    /\ epc = "idle"
    /\ pipeline = <<>>
    /\ nsegments = 0
    /\ children = <<>>
    /\ prev_stdout = None
    /\ last_status = None
    /\ last_exit_code = 0
    /\ exec_result = NoExec
    /\ procs = <<>>

\* execute_pipeline is called with a pipeline of n external segments: an
\* empty pipeline returns success at once, any other goes on to
\* execute_external_pipeline with its locals initialised.
ExecutePipeline ==
    /\ epc \in {"idle", "done"}
    /\ \E n \in 0..MaxSegments :
        /\ nsegments' = n
        /\ epc' = IF n = 0 THEN "done" ELSE "spawn"
        /\ exec_result' = IF n = 0 THEN ExecOk(0) ELSE NoExec
    /\ pipeline' = <<>>
    /\ children' = <<>>
    /\ prev_stdout' = None
    /\ last_status' = None
    /\ procs' = <<>>
    /\ UNCHANGED last_exit_code

\* One turn of `for (i, cmd) in commands.iter().enumerate()`: the redirects
\* are opened and the segment is spawned, or the children spawned so far are
\* cleaned up and the error is returned.
SpawnSegment ==
    /\ epc = "spawn"
    /\ Len(pipeline) < nsegments
    /\ \E cmd \in Segments :
        LET seg      == Len(pipeline)
            is_first == seg = 0
            is_last  == seg = nsegments - 1
            outcome  == BuildOutcome(cmd)
            \* stdin: the redirect, else inherit, else prev_stdout.take()
            kept     == IF IsSome(cmd.stdin_redirect) \/ is_first
                        THEN prev_stdout ELSE None
        IN  /\ pipeline' = Append(pipeline, cmd)
            /\ IF outcome = "spawned"
               THEN /\ procs' = Append(procs, Running(StdinOf(cmd, is_first, prev_stdout),
                                                      StdoutOf(cmd, is_last),
                                                      StderrOf(cmd)))
                    /\ children' = Append(children, Len(procs) + 1)
                    /\ prev_stdout' =
                          IF ~is_last
                          THEN (IF IsSome(cmd.stdout_redirect) THEN None
                                ELSE Some(Len(procs) + 1))
                          ELSE kept
                    /\ epc' = IF is_last THEN "wait" ELSE "spawn"
                    /\ UNCHANGED exec_result
               ELSE /\ procs' = cleanup_children(procs, children)
                    /\ children' = <<>>
                    /\ prev_stdout' = None
                    /\ exec_result' = ExecErr
                    /\ epc' = "done"
    /\ UNCHANGED <<nsegments, last_status, last_exit_code>>

\* A running child terminates by itself: it exits with a code or is ended by
\* a signal, and stays a zombie until it is waited on.
ChildExit ==
    /\ epc \in {"spawn", "wait", "done"}
    /\ \E k \in 1..Len(procs), status \in {Exited(c) : c \in ExitCodes} \cup {Signaled} :
        /\ procs[k].st = "running"
        /\ procs' = [procs EXCEPT ![k].st = "zombie", ![k].status = status]
    /\ UNCHANGED <<epc, pipeline, nsegments, children, prev_stdout, last_status,
                   last_exit_code, exec_result>>

\* One turn of `for mut child in children`: child.wait() returns once the
\* child has terminated, and its status becomes last_status.
WaitChild ==
    /\ epc = "wait"
    /\ children # <<>>
    /\ procs[Head(children)].st = "zombie"
    /\ procs' = [procs EXCEPT ![Head(children)].st = "reaped"]
    /\ last_status' = Some(procs[Head(children)].status)
    /\ children' = Tail(children)
    /\ UNCHANGED <<epc, pipeline, nsegments, prev_stdout, last_exit_code, exec_result>>

\* Every child is waited on: the exit code is computed, stored as
\* last_exit_code (in execute_external_pipeline and again in
\* execute_pipeline) and returned.
ReturnExitCode ==
    /\ epc = "wait"
    /\ children = <<>>
    /\ LET exit_code == PipelineExitCode(procs, last_status)
       IN  /\ last_exit_code' = exit_code
           /\ exec_result' = ExecOk(exit_code)
    /\ epc' = "done"
    /\ prev_stdout' = None
    /\ UNCHANGED <<pipeline, nsegments, children, last_status, procs>>

-----------------------------------------------------------------------------
(* The executor's claims. *)

\* C6: when building a pipeline fails at segment i (the program cannot be
\* spawned, or a redirect file cannot be opened), every child spawned for
\* segments 0..i-1 has been killed and waited on by the time execute_pipeline
\* returns the error: none is left running or unreaped.
C6_FailedBuildLeavesNoChild ==
    exec_result.kind = "Err" =>
        /\ BuildOutcome(pipeline[Len(pipeline)]) # "spawned"
        /\ Len(procs) = Len(pipeline) - 1
        /\ \A k \in 1..Len(procs) : procs[k].st = "reaped"

\* The build failed at the third segment: one earlier child was still running
\* and was killed, the other had already exited by itself.
C6_Witness ==
    /\ exec_result.kind = "Err"
    /\ Len(procs) >= 2
    /\ \E k \in 1..Len(procs) : procs[k].status = Signaled
    /\ \E k \in 1..Len(procs) : procs[k].status = Exited(0)
    /\ \A k \in 1..Len(procs) : procs[k].st = "reaped"

\* C7: for an external pipeline whose segments all spawn, the exit code
\* returned by execute_pipeline, and stored as last_exit_code, is the exit
\* code of the last segment, whatever the earlier segments ended with (1 when
\* the last segment was ended by a signal and has no exit code).
C7_ExitCodeOfLastSegment ==
    (exec_result.kind = "Ok" /\ nsegments >= 1) =>
        /\ Len(procs) = nsegments
        /\ exec_result.exit_code =
              IF procs[nsegments].status.signaled THEN 1
              ELSE procs[nsegments].status.code
        /\ last_exit_code = exec_result.exit_code

\* `false | true`: the first stage exited with 1, the last with 0, and the
\* pipeline returned 0.
C7_Witness ==
    /\ exec_result.kind = "Ok"
    /\ nsegments >= 2
    /\ procs[1].status = Exited(1)
    /\ procs[nsegments].status = Exited(0)
    /\ exec_result.exit_code = 0
    /\ last_exit_code = 0

\* C19 as stated: after every execute_pipeline call that fails (a spawn
\* failure, a redirect file that cannot be opened), the executor's
\* last_exit_code is nonzero.
C19_Original ==
    (epc = "done" /\ exec_result = ExecErr) => last_exit_code # 0

\* The first segment of a pipeline names a program that cannot be spawned:
\* execute_pipeline has returned the error and last_exit_code is still 0.
C19_Witness ==
    /\ epc = "done"
    /\ exec_result = ExecErr
    /\ Len(pipeline) = 1
    /\ BuildOutcome(pipeline[1]) = "spawn_failed"
    /\ procs = <<>>
    /\ last_exit_code = 0

\* The stdout and stderr of the child spawned for segment k (counted from 1)
\* are what the claim says: the redirect file, truncated or appended to, else
\* the shell's stdout for the last segment, else a new pipe; stderr the
\* shell's.
OutputsAsStated(k) ==
    LET cmd == pipeline[k]
    IN  /\ procs[k].stdout =
              (IF IsSome(cmd.stdout_redirect)
               THEN ToFile(cmd.stdout_redirect[1], cmd.stdout_append)
               ELSE IF k = nsegments THEN Inherit
               ELSE Piped)
        /\ procs[k].stderr = Inherit

\* The stdin of the child spawned for segment k is what the claim says: the
\* redirect file, else the shell's stdin for the first segment, else the read
\* end of the pipe that the child of segment k-1 writes to.
StdinAsStated(k) ==
    LET cmd == pipeline[k]
    IN  procs[k].stdin =
            (IF IsSome(cmd.stdin_redirect) THEN ToFile(cmd.stdin_redirect[1], FALSE)
             ELSE IF k = 1 THEN Inherit
             ELSE PipeFrom(k - 1))

\* C30 as stated: for segment i of an N-segment pipeline, stdin is the
\* stdin_redirect file if one is given, otherwise the shell's stdin when
\* i = 0, otherwise the read end of the pipe written by segment i-1; stdout is
\* the stdout_redirect file (truncated, or appended when stdout_append) if one
\* is given, otherwise the shell's stdout when i = N-1, otherwise a new pipe
\* for segment i+1; stderr is the shell's stderr for every segment.
C30_Original ==
    \A k \in 1..Len(procs) :
        /\ StdinAsStated(k)
        /\ procs[k].stdin.kind = "pipe" => procs[procs[k].stdin.writer].stdout = Piped
        /\ OutputsAsStated(k)

\* What the children are spawned with: the outputs as stated, and the stdin
\* as stated except after a segment whose stdout is redirected to a file,
\* where the next child is given the shell's stdin.
C30_StreamsAsBuilt ==
    \A k \in 1..Len(procs) :
        /\ OutputsAsStated(k)
        /\ IF k > 1 /\ pipeline[k].stdin_redirect = None
              /\ IsSome(pipeline[k - 1].stdout_redirect)
           THEN procs[k].stdin = Inherit
           ELSE StdinAsStated(k)
        /\ procs[k].stdin.kind = "pipe" => procs[procs[k].stdin.writer].stdout = Piped

\* A pipeline of two segments has been spawned and waited on: the first
\* writes to a file, the second has no redirect and was given the shell's
\* stdin, no pipe existing between the two.
C30_Witness ==
    /\ epc = "done"
    /\ exec_result.kind = "Ok"
    /\ nsegments = 2
    /\ Len(procs) = 2
    /\ pipeline[1].stdout_redirect = Some("file")
    /\ pipeline[2].stdin_redirect = None
    /\ procs[1].stdout = ToFile("file", FALSE)
    /\ procs[2].stdin = Inherit

\* C34 as stated: when execute_external_pipeline starts waiting for its
\* children, the shell holds no read end of any inter-segment pipe: every
\* pipe created for a non-last segment has had its read end handed to the
\* next segment or closed, also when the next segment takes its stdin from a
\* redirect file.
C34_Original == epc = "wait" => prev_stdout = None

\* The last segment reads a file, the one before it writes to a pipe: the
\* shell waits with the read end of that pipe in prev_stdout.
C34_Witness ==
    /\ epc = "wait"
    /\ nsegments >= 2
    /\ Len(pipeline) = nsegments
    /\ IsSome(pipeline[nsegments].stdin_redirect)
    /\ ~IsSome(pipeline[nsegments - 1].stdout_redirect)
    /\ prev_stdout = Some(nsegments - 1)
    /\ procs[nsegments - 1].stdout = Piped
    /\ procs[nsegments].stdin = ToFile(pipeline[nsegments].stdin_redirect[1], FALSE)

\* The read end of a pipe made for a segment before the last is closed while
\* the segments are spawned wherever a segment before the last follows it.
C34_MiddleReadEndsClosed ==
    epc \in {"spawn", "wait"} =>
        \A k \in 1..Len(procs) :
            (procs[k].stdout = Piped /\ k + 1 < Len(procs)) => prev_stdout # Some(k)

-----------------------------------------------------------------------------
(* The children at work: programs that copy their stdin to their stdout,   *)
(* exit once their stdin is at end-of-file and are ended by SIGPIPE once   *)
(* their stdout has no reader left.                                        *)

VARIABLES
    pipe_fill,      \* pipe_fill[k]: what is in the pipe made for segment k
    input_left      \* input_left[k]: what segment k has yet to read of its
                    \* redirect file, or of the terminal before its end-of-file

flowVars == <<pipe_fill, input_left>>

\* What a pipe holds before a write to it blocks.
PipeCapacity == 1

\* Longest input of a segment, in writes.
MaxInput == 2

FlowInit ==
    /\ pipe_fill = [k \in 1..MaxSegments |-> 0]
    /\ \E n \in 0..MaxInput : input_left = [k \in 1..MaxSegments |-> n]

FlowIdle ==
    /\ pipe_fill = [k \in 1..MaxSegments |-> 0]
    /\ input_left = [k \in 1..MaxSegments |-> 0]

\* Someone holds the read end of the pipe made for segment k: the shell in
\* prev_stdout, or a child spawned with it as stdin that has not terminated.
HasReader(k) ==
    \/ prev_stdout = Some(k)
    \/ \E r \in 1..Len(procs) : procs[r].stdin = PipeFrom(k) /\ procs[r].st = "running"

\* The write end of the pipe made for segment k is held by that child alone
\* (Stdio::piped() leaves the shell the read end only).
HasWriter(k) == procs[k].st = "running"

\* read() on the stdin of child k has something to return.
CanRead(k) ==
    IF procs[k].stdin.kind = "pipe" THEN pipe_fill[procs[k].stdin.writer] > 0
    ELSE input_left[k] > 0

\* read() on the stdin of child k returns 0.
AtEof(k) ==
    IF procs[k].stdin.kind = "pipe"
    THEN pipe_fill[procs[k].stdin.writer] = 0 /\ ~HasWriter(procs[k].stdin.writer)
    ELSE input_left[k] = 0

\* write() on the stdout of child k returns without blocking.
CanWrite(k) == procs[k].stdout.kind = "pipe" => pipe_fill[k] < PipeCapacity

\* write() on the stdout of child k raises SIGPIPE.
NoReaderLeft(k) == procs[k].stdout.kind = "pipe" /\ ~HasReader(k)

\* Child k reads from its stdin and writes what it read to its stdout.
ChildCopies ==
    /\ epc \in {"spawn", "wait"}
    /\ \E k \in 1..Len(procs) :
        /\ procs[k].st = "running"
        /\ CanRead(k)
        /\ ~NoReaderLeft(k)
        /\ CanWrite(k)
        /\ LET taken == IF procs[k].stdin.kind = "pipe"
                        THEN [pipe_fill EXCEPT ![procs[k].stdin.writer] = @ - 1]
                        ELSE pipe_fill
           IN  /\ pipe_fill' = IF procs[k].stdout.kind = "pipe"
                               THEN [taken EXCEPT ![k] = @ + 1]
                               ELSE taken
               /\ input_left' = IF procs[k].stdin.kind = "pipe" THEN input_left
                                ELSE [input_left EXCEPT ![k] = @ - 1]
    /\ UNCHANGED executorVars

\* Child k terminates: its stdin is at end-of-file and it exits with 0, or
\* its stdout has no reader left and SIGPIPE ends it.
ChildEnds ==
    /\ epc \in {"spawn", "wait"}
    /\ \E k \in 1..Len(procs) :
        /\ procs[k].st = "running"
        /\ AtEof(k) \/ NoReaderLeft(k)
        /\ procs' = [procs EXCEPT ![k].st = "zombie",
                                  ![k].status = IF AtEof(k) THEN Exited(0) ELSE Signaled]
    /\ UNCHANGED <<epc, pipeline, nsegments, children, prev_stdout, last_status,
                   last_exit_code, exec_result, pipe_fill, input_left>>

\* A child is in write() on a full pipe whose read end nobody reads from.
BlockedWriting(k) ==
    /\ procs[k].st = "running"
    /\ procs[k].stdout.kind = "pipe"
    /\ pipe_fill[k] = PipeCapacity
    /\ CanRead(k)
    /\ HasReader(k)
    /\ ~\E r \in 1..Len(procs) : procs[r].stdin = PipeFrom(k) /\ procs[r].st = "running"

\* C35 as stated: if every segment is a program that exits once its stdin
\* reaches end-of-file or its stdout has no reader left, execute_pipeline
\* eventually returns for every combination of redirects on the segments:
\* the shell never blocks forever in wait on a child that is itself blocked
\* writing to a pipe nobody will read.
C35_Original == epc = "spawn" ~> epc = "done"

\* The shell is in child.wait() on a child blocked writing to the pipe whose
\* read end the shell itself holds; every other child has terminated.
C35_Witness ==
    /\ epc = "wait"
    /\ children # <<>>
    /\ BlockedWriting(Head(children))
    /\ prev_stdout = Some(Head(children))
    /\ \A k \in 1..Len(procs) : k # Head(children) => procs[k].st # "running"

\* With no read end left in the shell when the waiting starts,
\* execute_pipeline returns.
C35_ReturnsWithoutLeak == (epc = "wait" /\ prev_stdout = None) ~> epc = "done"

-----------------------------------------------------------------------------
(***************************************************************************)
(*                             THE ALIAS TABLE                             *)
(***************************************************************************)

VARIABLES
    apc,          \* where the alias run is: "off", "ready", "done"
    alias_value,  \* the value of the `name=value` argument given to alias
    aliases,      \* Executor.aliases: a map from a name to its tokens
    segment,      \* the pipeline segment being resolved
    spawned       \* the program and the arguments handed to the new process

aliasVars == <<apc, alias_value, aliases, segment, spawned>>

\* Longest alias value explored.
MaxValue == 3

\* One character of every class parse_alias_value tells apart, and `$`.
AliasValues == StringsOver({"a", " ", "'", "\"", "\\", "$"}, MaxValue)

\* The one alias name, and the programs a segment names.
AliasNames == {<<"l">>}

SegmentPrograms == {<<"l">>, <<"p">>}

SegmentArgs == {<<>>, <<<<"x">>>>, <<<<"x">>, <<"y">>>>}

\* The locals of parse_alias_value before the loop.
AliasStart ==
    [tokens |-> <<>>, current_token |-> <<>>, in_single_quote |-> FALSE,
     in_double_quote |-> FALSE, i |-> 0]

\* One turn of `while let Some(c) = chars.next()`.
AliasStep(a, cs) ==
    LET c    == cs[a.i + 1]
        next == CharAt(cs, a.i + 1)
    IN  CASE c = "'" /\ ~a.in_double_quote ->
               [a EXCEPT !.in_single_quote = ~@, !.i = @ + 1]
          [] c = "\"" /\ ~a.in_single_quote ->
               [a EXCEPT !.in_double_quote = ~@, !.i = @ + 1]
          [] IsBlank(c) /\ ~a.in_single_quote /\ ~a.in_double_quote ->
               IF a.current_token # <<>>
               THEN [a EXCEPT !.tokens = Append(@, a.current_token),
                              !.current_token = <<>>, !.i = @ + 1]
               ELSE [a EXCEPT !.i = @ + 1]
          [] c = "\\" /\ a.in_double_quote ->
               IF IsSome(next) /\ next[1] \in {"\"", "\\", "$"}
               THEN [a EXCEPT !.current_token = Append(@, next[1]), !.i = @ + 2]
               ELSE [a EXCEPT !.current_token = Append(@, c), !.i = @ + 1]
          [] OTHER ->
               [a EXCEPT !.current_token = Append(@, c), !.i = @ + 1]

RECURSIVE AliasLoop(_, _)
AliasLoop(a, cs) == IF a.i < Len(cs) THEN AliasLoop(AliasStep(a, cs), cs) ELSE a

\* Executor::parse_alias_value
parse_alias_value(value) ==
    LET a == AliasLoop(AliasStart, value)
    IN  IF a.current_token # <<>> THEN Append(a.tokens, a.current_token)
        ELSE a.tokens

\* HashMap::insert
Insert(map, key, val) ==
    [k \in DOMAIN map \cup {key} |-> IF k = key THEN val ELSE map[k]]

\* An expansion that loses the segment's own arguments.
ExpandAlias_DropsOwnArgs(table, cmd) ==
    IF cmd.program \in DOMAIN table /\ table[cmd.program] # <<>>
    THEN [program |-> table[cmd.program][1], args |-> Tail(table[cmd.program])]
    ELSE [program |-> cmd.program, args |-> cmd.args]

\* "Resolve alias - expand tokens": the program and the arguments spawned.
ExpandAlias(table, cmd) ==
    IF cmd.program \in DOMAIN table /\ table[cmd.program] # <<>>
    THEN [program |-> table[cmd.program][1],
          args    |-> Tail(table[cmd.program]) \o cmd.args]
    ELSE [program |-> cmd.program, args |-> cmd.args]

-----------------------------------------------------------------------------
(* The alias table's actions. *)

AliasInit ==
    /\ apc = "ready"
    /\ alias_value \in AliasValues
    /\ aliases = <<>>
    /\ segment = Plain(<<>>, <<>>)
    /\ spawned = None

\* The alias table when another component is being explored.
AliasIdle ==
    /\ apc = "off"
    /\ alias_value = <<>>
    /\ aliases = <<>>
    /\ segment = Plain(<<>>, <<>>)
    /\ spawned = None

\* builtin_alias with the one argument name=value.
BuiltinAlias ==
    /\ apc = "ready"
    /\ aliases = <<>>
    /\ \E name \in AliasNames :
          aliases' = Insert(aliases, name, parse_alias_value(alias_value))
    /\ UNCHANGED <<apc, alias_value, segment, spawned>>

\* The alias resolution of one segment of execute_external_pipeline.
ResolveAlias ==
    /\ apc = "ready"
    /\ \E prog \in SegmentPrograms, args \in SegmentArgs :
          /\ segment' = Plain(prog, args)
          /\ spawned' = Some(ExpandAlias(aliases, Plain(prog, args)))
    /\ apc' = "done"
    /\ UNCHANGED <<alias_value, aliases>>

-----------------------------------------------------------------------------
(* The alias table's claims. *)

\* C16: for an alias whose token list is [t0, t1 .. tk], the program spawned
\* is t0 and its arguments are t1 .. tk followed by the segment's own
\* arguments in their order, nothing dropped or reordered; an alias with an
\* empty token list, like no alias at all, leaves the command unchanged.
C16_AliasExpansion ==
    (apc = "done") =>
        IF segment.program \in DOMAIN aliases /\ aliases[segment.program] # <<>>
        THEN <<spawned[1].program>> \o spawned[1].args
                 = aliases[segment.program] \o segment.args
        ELSE /\ spawned[1].program = segment.program
             /\ spawned[1].args = segment.args

\* An alias of two tokens was expanded for a segment with two arguments.
C16_Witness ==
    /\ apc = "done"
    /\ segment.program \in DOMAIN aliases
    /\ Len(aliases[segment.program]) = 2
    /\ Len(segment.args) = 2
    /\ spawned[1].program = aliases[segment.program][1]
    /\ spawned[1].args = <<aliases[segment.program][2]>> \o segment.args

\* An alias whose value holds no token was looked up.
C16_WitnessEmpty ==
    /\ apc = "done"
    /\ segment.program \in DOMAIN aliases
    /\ aliases[segment.program] = <<>>
    /\ spawned[1].program = segment.program

\* C17 as stated: for every alias value, parse_alias_value produces the token
\* sequence the parser's quote and escape handling produces for the same text
\* written as arguments (single quotes, double quotes with their escapes,
\* backslash outside quotes), whenever the parser accepts the text.
C17_Original ==
    \A name \in DOMAIN aliases :
        AsArgument(alias_value).kind = "Commands" =>
            aliases[name] = AsArgument(alias_value).commands[1].args

\* The alias value `\ a`: the parser's escape makes it the one argument " a",
\* parse_alias_value makes it the two tokens `\` and `a`.
C17_Witness ==
    /\ alias_value = <<"\\", " ", "a">>
    /\ <<"l">> \in DOMAIN aliases
    /\ aliases[<<"l">>] = <<<<"\\">>, <<"a">>>>
    /\ AsArgument(alias_value) = Commands(<<Plain(<<"a">>, <<<<" ", "a">>>>)>>)

-----------------------------------------------------------------------------
(***************************************************************************)
(*                      THE BUILT-INS AND THE SESSION                      *)
(***************************************************************************)

VARIABLES
    spc,           \* where the session is: "off", "ready" (no call under way),
                   \* "source" (in the loop of builtin_source), "sourced"
                   \* (that loop has returned), "gone" (the process is over)
    process,       \* the shell process: "running", "exited", "panicked"
    exit_status,   \* the code given to std::process::exit, if it was called
    last_line,     \* the last line the caller handed to parse
    nlines,        \* how many lines the caller has handed over
    call_result,   \* what the caller's last execute_pipeline returned
    script,        \* builtin_source: the lines of the file read
    line_no,       \* builtin_source: how many lines the loop has gone through
    running_code,  \* builtin_source: the local last_exit_code
    trace,         \* builtin_source: what became of each line gone through
    front,         \* what built the parser and the executor: "repl"
                   \* (Repl::new) or "command" (execute_command, for -c)
    ai_trigger_prefix  \* Executor.ai_trigger_prefix

sessionVars == <<spc, process, exit_status, last_line, nlines, call_result, script,
                 line_no, running_code, trace, front, ai_trigger_prefix>>

\* The executor's variables the session leaves to execute_external_pipeline.
pipelineVars == <<epc, pipeline, nsegments, children, prev_stdout, last_status,
                  exec_result, procs>>

\* The values of config.ai.trigger_prefix explored: the default, and one that
\* is the first character of an ordinary command line.
ConfiguredTriggers == {<<"!">>, <<"a">>}

\* Executor::new: the executor's trigger prefix is "!".
ExecutorNew == <<"!">>

\* Executor::with_ai_trigger: the executor's trigger prefix is the one given.
with_ai_trigger(prefix) == prefix

\* Most lines the caller hands over, and most lines of a sourced file.
MaxLines == 2

MaxScript == 3

\* The lines explored, by what they are.
LineBlank == <<" ">>

LineComment == <<"#", "a">>

LineAIQuery == <<"!", "a">>

LineExternal == <<"a">>

LineDanglingPipe == <<"a", "|">>

LineOnlyRedirect == <<">", "a">>

LineCd == <<"c", "d", " ", "x">>

LineExit == <<"e", "x", "i", "t">>

LineQuitOne == <<"q", "u", "i", "t", " ", "1">>

LineExport == <<"e", "x", "p", "o", "r", "t", " ", "a", "=", "b">>

LineExportNoKey == <<"e", "x", "p", "o", "r", "t", " ", "=", "a">>

LineUnset == <<"u", "n", "s", "e", "t", " ", "a">>

LineUnsetEquals == <<"u", "n", "s", "e", "t", " ", "a", "=", "b">>

LinePwd == <<"p", "w", "d">>

LineHelp == <<"h", "e", "l", "p">>

LineSource == <<"s", "o", "u", "r", "c", "e", " ", "f">>

LineDot == <<".", " ", "f">>

LineSourceNoArg == <<"s", "o", "u", "r", "c", "e">>

\* The lines the caller hands to parse (source apart).
SessionLines ==
    {LineBlank, LineAIQuery, LineExternal, LineDanglingPipe, LineCd, LineExit,
     LineQuitOne, LineExport, LineExportNoKey, LineUnset, LineUnsetEquals,
     LinePwd, LineHelp}

SourceCalls == {LineSource, LineDot, LineSourceNoArg}

\* The lines of a sourced file.
ScriptLines ==
    {LineBlank, LineComment, LineAIQuery, LineExternal, LineDanglingPipe,
     LineOnlyRedirect, LineExit, LineExportNoKey}

RECURSIVE ScriptsUpTo(_)
ScriptsUpTo(n) ==
    IF n = 0 THEN {<<>>}
    ELSE LET shorter == ScriptsUpTo(n - 1)
         IN  shorter \cup {Append(s, l) : s \in {t \in shorter : Len(t) = n - 1},
                                           l \in ScriptLines}

Scripts == ScriptsUpTo(MaxScript)

\* A from_str that does not know `.`.
from_str_NoDot(s) ==
    CASE s = <<"c", "d">>                          -> Some("Cd")
      [] s \in {<<"e", "x", "i", "t">>, <<"q", "u", "i", "t">>}
                                                   -> Some("Exit")
      [] s = <<"e", "x", "p", "o", "r", "t">>      -> Some("Export")
      [] s = <<"u", "n", "s", "e", "t">>           -> Some("Unset")
      [] s = <<"h", "i", "s", "t", "o", "r", "y">> -> Some("History")
      [] s = <<"h", "e", "l", "p">>                -> Some("Help")
      [] s = <<"c", "l", "e", "a", "r">>           -> Some("Clear")
      [] s = <<"p", "w", "d">>                     -> Some("Pwd")
      [] s = <<"a", "l", "i", "a", "s">>           -> Some("Alias")
      [] s = <<"s", "o", "u", "r", "c", "e">>      -> Some("Source")
      [] OTHER                                     -> None

\* BuiltinCommand::from_str
from_str(s) ==
    CASE s = <<"c", "d">>                          -> Some("Cd")
      [] s \in {<<"e", "x", "i", "t">>, <<"q", "u", "i", "t">>}
                                                   -> Some("Exit")
      [] s = <<"e", "x", "p", "o", "r", "t">>      -> Some("Export")
      [] s = <<"u", "n", "s", "e", "t">>           -> Some("Unset")
      [] s = <<"h", "i", "s", "t", "o", "r", "y">> -> Some("History")
      [] s = <<"h", "e", "l", "p">>                -> Some("Help")
      [] s = <<"c", "l", "e", "a", "r">>           -> Some("Clear")
      [] s = <<"p", "w", "d">>                     -> Some("Pwd")
      [] s = <<"a", "l", "i", "a", "s">>           -> Some("Alias")
      [] s \in {<<"s", "o", "u", "r", "c", "e">>, <<".">>}
                                                   -> Some("Source")
      [] OTHER                                     -> None

\* str::parse::<i32>().ok(), on the one-digit tokens.
ParseI32(token) ==
    CASE token = <<"0">> -> Some(0)
      [] token = <<"1">> -> Some(1)
      [] OTHER           -> None

\* cmd.args.first().and_then(|s| s.parse().ok()).unwrap_or(0)
ExitArgument(args) ==
    IF args # <<>> /\ IsSome(ParseI32(args[1])) THEN ParseI32(args[1])[1] ELSE 0

\* arg.split_once('='): the text before the first `=`, None without one.
KeyOf(arg) ==
    IF \E k \in 1..Len(arg) : arg[k] = "="
    THEN LET first == CHOOSE k \in 1..Len(arg) :
                          /\ arg[k] = "="
                          /\ \A j \in 1..(k - 1) : arg[j] # "="
         IN  Some(SubSeq(arg, 1, first - 1))
    ELSE None

\* std::env::set_var and remove_var may panic when the key is empty or
\* contains `=`.
BadEnvKey(key) == key = <<>> \/ \E k \in 1..Len(key) : key[k] = "="

\* builtin_export calls set_var with a key that may make it panic.
ExportMayPanic(args) ==
    \E k \in 1..Len(args) : IsSome(KeyOf(args[k])) /\ BadEnvKey(KeyOf(args[k])[1])

\* builtin_unset calls remove_var with a key that may make it panic.
UnsetMayPanic(args) == \E k \in 1..Len(args) : BadEnvKey(args[k])

\* What a call does: it returns Ok(code) or Err, or the process is gone
\* (exit, panic); `lec` is last_exit_code afterwards.
Outcome(kind, code, lec) == [kind |-> kind, code |-> code, lec |-> lec]

\* execute_builtin, source apart: the outcomes the environment allows.
BuiltinOutcomes(builtin, cmd, lec) ==
    CASE builtin = "Cd"     -> {Outcome("ok", 0, 0), Outcome("err", 0, lec)}
      [] builtin = "Exit"   -> {Outcome("exit", ExitArgument(cmd.args), lec)}
      [] builtin = "Export" ->
           {Outcome("ok", 0, 0)}
           \cup (IF ExportMayPanic(cmd.args) THEN {Outcome("panic", 0, lec)} ELSE {})
      [] builtin = "Unset"  ->
           {Outcome("ok", 0, 0)}
           \cup (IF UnsetMayPanic(cmd.args) THEN {Outcome("panic", 0, lec)} ELSE {})
      [] builtin \in {"Clear", "Pwd"} ->
           {Outcome("ok", 0, lec), Outcome("err", 0, lec)}
      [] OTHER              -> {Outcome("ok", 0, lec)}

\* execute_pipeline, source apart: nothing to do, a built-in, or
\* execute_external_pipeline returning the last segment's code or an error.
ExecOutcomes(cmds, lec) ==
    IF cmds = <<>> THEN {Outcome("ok", 0, lec)}
    ELSE IF Len(cmds) = 1 /\ IsSome(from_str(cmds[1].program))
    THEN BuiltinOutcomes(from_str(cmds[1].program)[1], cmds[1], lec)
    ELSE {Outcome("ok", c, c) : c \in ExitCodes} \cup {Outcome("err", 0, lec)}

\* A source loop in which a line that fails leaves the running code alone.
RunningAfter_FailureIgnored(code, entry) ==
    IF entry.kind = "ok" THEN entry.code ELSE code

\* builtin_source: the local last_exit_code after one line.
RunningAfter(code, entry) ==
    CASE entry.kind = "ok"                    -> entry.code
      [] entry.kind \in {"err", "parse_error"} -> 1
      [] OTHER                                -> code

\* builtin_source: what one line of the file comes to.
SourceOutcomes(trigger, raw, lec) ==
    LET l == Trim(raw)
        r == ParseLine(trigger, l)
    IN  IF l = <<>> \/ StartsWith(l, <<"#">>) THEN {Outcome("skipped", 0, lec)}
        ELSE CASE r.kind = "Commands" -> ExecOutcomes(r.commands, lec)
               [] r.kind = "Empty"    -> {Outcome("empty", 0, lec)}
               [] r.kind = "AIQuery"  -> {Outcome("ai", 0, lec)}
               [] r.kind = "Error"    -> {Outcome("parse_error", 0, lec)}

\* The process after an outcome.
ProcessAfter(kind) ==
    CASE kind = "exit"  -> "exited"
      [] kind = "panic" -> "panicked"
      [] OTHER          -> "running"

-----------------------------------------------------------------------------
(* The session's actions. *)

\* The parser of a session: Parser::new(config.ai.trigger_prefix.clone()), in
\* Repl::new and in execute_command alike; parse is used as a function.
ParserOfSession ==
    /\ ai_trigger \in ConfiguredTriggers
    /\ input = <<>>
    /\ ppc = "off"
    /\ chars = <<>>
    /\ i = 0
    /\ state = "Idle"
    /\ prev_state = "Idle"
    /\ current_token = <<>>
    /\ current_command = DefaultCommand
    /\ commands = <<>>
    /\ result = NoResult
    /\ shape = FreeText

\* Repl::new builds its executor with Executor::new(), execute_command with
\* Executor::with_ai_trigger(config.ai.trigger_prefix.clone()).
SessionInit ==
    /\ spc = "ready"
    /\ process = "running"
    /\ exit_status = None
    /\ last_line = <<>>
    /\ nlines = 0
    /\ call_result = NoExec
    /\ script = <<>>
    /\ line_no = 0
    /\ running_code = 0
    /\ trace = <<>>
    /\ front \in {"repl", "command"}
    /\ ai_trigger_prefix = IF front = "repl" THEN ExecutorNew
                           ELSE with_ai_trigger(ai_trigger)

\* The session when another component is being explored.
SessionIdle ==
    /\ spc = "off"
    /\ process = "running"
    /\ exit_status = None
    /\ last_line = <<>>
    /\ nlines = 0
    /\ call_result = NoExec
    /\ script = <<>>
    /\ line_no = 0
    /\ running_code = 0
    /\ trace = <<>>
    /\ front = "repl"
    /\ ai_trigger_prefix = ExecutorNew

\* Lines the caller may still hand over: execute_command parses one line, the
\* loop of Repl::run one after another.
MayHandOver == nlines < (IF front = "command" THEN 1 ELSE MaxLines)

\* The caller hands a line to parse and a Commands result to
\* execute_pipeline.
RunLine ==
    /\ spc = "ready"
    /\ MayHandOver
    /\ \E l \in SessionLines :
        LET r == ParseLine(ai_trigger, l)
        IN  /\ last_line' = l
            /\ IF r.kind = "Commands"
               THEN \E o \in ExecOutcomes(r.commands, last_exit_code) :
                       /\ last_exit_code' = o.lec
                       /\ process' = ProcessAfter(o.kind)
                       /\ spc' = IF o.kind \in {"exit", "panic"} THEN "gone"
                                 ELSE "ready"
                       /\ exit_status' = IF o.kind = "exit" THEN Some(o.code)
                                         ELSE exit_status
                       /\ call_result' = CASE o.kind = "ok"  -> ExecOk(o.code)
                                           [] o.kind = "err" -> ExecErr
                                           [] OTHER          -> NoExec
               ELSE /\ call_result' = NoExec
                    /\ spc' = "ready"
                    /\ UNCHANGED <<last_exit_code, process, exit_status>>
    /\ nlines' = nlines + 1
    /\ UNCHANGED <<script, line_no, running_code, trace, front, ai_trigger_prefix>>

\* The caller hands over a source line: builtin_source up to its loop.
CallSource ==
    /\ spc = "ready"
    /\ MayHandOver
    /\ \E l \in SourceCalls :
        LET cmd == ParseLine(ai_trigger, l).commands[1]
        IN  /\ last_line' = l
            /\ \/ /\ cmd.args = <<>>
                  /\ last_exit_code' = 1
                  /\ call_result' = ExecOk(1)
                  /\ spc' = "ready"
                  /\ script' = <<>>
               \/ /\ cmd.args # <<>>
                  \* read_to_string fails
                  /\ last_exit_code' = 1
                  /\ call_result' = ExecOk(1)
                  /\ spc' = "ready"
                  /\ script' = <<>>
               \/ /\ cmd.args # <<>>
                  /\ script' \in Scripts
                  /\ spc' = "source"
                  /\ call_result' = NoExec
                  /\ UNCHANGED last_exit_code
    /\ trace' = <<>>
    /\ line_no' = 0
    /\ running_code' = 0
    /\ nlines' = nlines + 1
    /\ UNCHANGED <<process, exit_status, front, ai_trigger_prefix>>

\* One turn of `for line in content.lines()`, the line parsed by
\* Parser::new(self.ai_trigger_prefix.clone()).
SourceLine ==
    /\ spc = "source"
    /\ line_no < Len(script)
    /\ \E o \in SourceOutcomes(ai_trigger_prefix, script[line_no + 1], last_exit_code) :
        /\ trace' = Append(trace, [kind |-> o.kind, code |-> o.code])
        /\ running_code' = RunningAfter(running_code, o)
        /\ last_exit_code' = o.lec
        /\ process' = ProcessAfter(o.kind)
        /\ spc' = IF o.kind \in {"exit", "panic"} THEN "gone" ELSE spc
        /\ exit_status' = IF o.kind = "exit" THEN Some(o.code) ELSE exit_status
    /\ line_no' = line_no + 1
    /\ UNCHANGED <<last_line, nlines, call_result, script, front, ai_trigger_prefix>>

\* The loop is over: the running code becomes last_exit_code and is returned.
SourceReturn ==
    /\ spc = "source"
    /\ line_no >= Len(script)
    /\ last_exit_code' = running_code
    /\ call_result' = ExecOk(running_code)
    /\ spc' = "sourced"
    /\ UNCHANGED <<process, exit_status, last_line, nlines, script, line_no,
                   running_code, trace, front, ai_trigger_prefix>>

\* builtin_source is back in its caller: its locals are dropped.
SourceDropped ==
    /\ spc = "sourced"
    /\ spc' = "ready"
    /\ script' = <<>>
    /\ line_no' = 0
    /\ running_code' = 0
    /\ trace' = <<>>
    /\ UNCHANGED <<process, exit_status, last_line, nlines, call_result,
                   last_exit_code, front, ai_trigger_prefix>>

-----------------------------------------------------------------------------
(* The session's claims. *)

\* The process ended inside the loop of builtin_source.
EndedInSource ==
    /\ spc = "gone"
    /\ trace # <<>>
    /\ trace[Len(trace)].kind \in {"exit", "panic"}

\* The line whose execution ended the process.
EndingLine == IF EndedInSource THEN Trim(script[line_no]) ELSE last_line

\* The trigger prefix of the parser that parsed that line.
EndingTrigger == IF EndedInSource THEN ai_trigger_prefix ELSE ai_trigger

\* The line is a single exit or quit command.
IsExitLine(l) ==
    LET r == ParseLine(EndingTrigger, l)
    IN  /\ r.kind = "Commands"
        /\ Len(r.commands) = 1
        /\ r.commands[1].program \in {<<"e", "x", "i", "t">>, <<"q", "u", "i", "t">>}

\* C18 as stated: no line and no sequence of parse and execute_pipeline calls
\* ends the shell process, the exit/quit built-in apart: the process runs, or
\* it has exited by std::process::exit called for an exit or quit line, never
\* by a panic and never on another built-in's path.
C18_Original ==
    \/ process = "running"
    \/ process = "exited" /\ IsExitLine(EndingLine)

\* The first line handed over was `export =a`: set_var was called with an
\* empty key and the process has panicked.
C18_Witness ==
    /\ process = "panicked"
    /\ nlines = 1
    /\ last_line = LineExportNoKey
    /\ ParseLine(ai_trigger, last_line).commands[1].args = <<<<"=", "a">>>>
    /\ ExportMayPanic(ParseLine(ai_trigger, last_line).commands[1].args)

\* The line is skipped by builtin_source: blank, or a comment.
IsSkipped(raw) ==
    \/ AllWhitespace(raw)
    \/ \E j \in 0..Len(raw) - 1 : AllWhitespace(SubSeq(raw, 1, j)) /\ raw[j + 1] = "#"

\* The exit code of the last line that was executed or that failed, 0 if no
\* line was.
RECURSIVE LastCode(_)
LastCode(tr) ==
    IF tr = <<>> THEN 0
    ELSE LET e == tr[Len(tr)]
         IN  CASE e.kind = "ok"                      -> e.code
               [] e.kind \in {"err", "parse_error"} -> 1
               [] OTHER -> LastCode(SubSeq(tr, 1, Len(tr) - 1))

\* What became of line k of the file fits what the line is.
EntryFits(k) ==
    LET raw == script[k]
        r   == ParseLine(ai_trigger_prefix, raw)
    IN  IF IsSkipped(raw) THEN trace[k].kind = "skipped"
        ELSE CASE r.kind = "AIQuery"  -> trace[k].kind = "ai"
               [] r.kind = "Error"    -> trace[k].kind = "parse_error"
               [] r.kind = "Empty"    -> trace[k].kind = "empty"
               [] r.kind = "Commands" -> trace[k].kind \in {"ok", "err", "exit", "panic"}

\* The lines gone through are the first lines of the file, in order, each
\* treated as what it is, and the running code is that of the last line
\* executed or failed.
SourceInOrder ==
    /\ Len(trace) = line_no
    /\ line_no <= Len(script)
    /\ \A k \in 1..Len(trace) : EntryFits(k)
    /\ running_code = LastCode(trace)

\* C20 as stated: source goes through every line of the file, whatever the
\* lines are, and returns the exit code of the last line executed or failed.
C20_Original ==
    /\ SourceInOrder
    /\ (spc = "sourced" \/ EndedInSource) => Len(trace) = Len(script)
    /\ spc = "sourced" =>
          call_result = ExecOk(LastCode(trace)) /\ last_exit_code = LastCode(trace)

\* C20, amended: source goes through the non-blank, non-comment lines of the
\* file in order; a line that fails to parse or whose execute_pipeline
\* returns an error sets the running code to 1 and the loop goes on; an
\* AI-query line is not executed and leaves the running code alone; when the
\* loop returns, every line has been gone through and the code returned, also
\* stored as last_exit_code, is that of the last line executed or failed (0
\* if none). The loop is cut short only by a line that ends the process: an
\* exit or quit line, or an export or unset whose key makes set_var or
\* remove_var panic.
C20_SourceLoop ==
    /\ SourceInOrder
    /\ spc = "sourced" =>
          /\ Len(trace) = Len(script)
          /\ call_result = ExecOk(LastCode(trace))
          /\ last_exit_code = LastCode(trace)
    /\ \A k \in 1..Len(trace) :
          trace[k].kind \in {"exit", "panic"} => (k = Len(trace) /\ spc = "gone")
    /\ (spc = "source" /\ line_no < Len(script)) => process = "running"

\* A file of three lines was sourced to its end: a command that failed to
\* execute, a line that failed to parse, then an AI query; 1 was returned.
C20_Witness ==
    /\ spc = "sourced"
    /\ Len(script) = 3
    /\ script[2] = LineDanglingPipe
    /\ script[3] = LineAIQuery
    /\ trace[1].kind = "err"
    /\ trace[2].kind = "parse_error"
    /\ trace[3].kind = "ai"
    /\ call_result = ExecOk(1)
    /\ last_exit_code = 1

\* Line k of the sourced file was taken for an AI query by builtin_source.
SourcedAsQuery(k) == trace[k].kind = "ai"

\* The parser of the session takes line k of the sourced file for an AI query.
TypedAsQuery(k) == ParseLine(ai_trigger, script[k]).kind = "AIQuery"

\* C21 as stated: for every configured trigger prefix, in the interactive
\* session, every line of a sourced file that is neither blank nor a comment
\* is classified (AI query or command) by builtin_source as the session's
\* parser classifies that line when it is typed at the prompt.
C21_Original ==
    front = "repl" =>
        \A k \in 1..Len(trace) :
            ~IsSkipped(script[k]) => (SourcedAsQuery(k) <=> TypedAsQuery(k))

\* The configured trigger prefix is `a` and the session is interactive: the
\* executor made by Executor::new() holds `!`, so the sourced line `a`, an AI
\* query at the prompt, was executed as a command, and the sourced line `!a`,
\* a command at the prompt, was taken for an AI query.
C21_Witness ==
    /\ front = "repl"
    /\ ai_trigger = <<"a">>
    /\ ai_trigger_prefix = <<"!">>
    /\ Len(trace) = 2
    /\ script[1] = LineExternal
    /\ trace[1].kind \in {"ok", "err"}
    /\ TypedAsQuery(1)
    /\ script[2] = LineAIQuery
    /\ SourcedAsQuery(2)
    /\ ~TypedAsQuery(2)

\* C37 as stated: after every execute_pipeline call that returns Ok(result)
\* for a non-empty pipeline, builtin or external, last_exit_code() equals
\* result.exit_code.
C37_Original ==
    (spc \in {"ready", "sourced"} /\ call_result.kind = "Ok") =>
        last_exit_code = call_result.exit_code

\* An external command exited with 1, then `help` was run: it returned
\* Ok with exit code 0 and last_exit_code is still 1.
C37_Witness ==
    /\ spc = "ready"
    /\ nlines = 2
    /\ last_line = LineHelp
    /\ call_result = ExecOk(0)
    /\ last_exit_code = 1

-----------------------------------------------------------------------------
(***************************************************************************)
(*                             THE cd BUILTIN                              *)
(***************************************************************************)

VARIABLES
    cwd,          \* the working directory of the shell process
    home_dir,     \* dirs::home_dir()
    env_vars,     \* Executor.env_vars at OLDPWD and PWD (std::env::set_var is
                  \* given the same values)
    cd_calls      \* the last calls of builtin_cd: path, outcome, and the
                  \* working directory each started from

cdVars == <<cwd, home_dir, env_vars, cd_calls>>

\* The directories there are.
Dirs == {"home", "d", "e"}

\* What cd may be called with: home, the previous directory, a directory,
\* a path that names none.
CdPaths == {"~", "-", "d", "e", "nodir"}

\* The calls remembered.
MaxCdCalls == 2

\* std::env::current_dir(), as Result::ok: the working directory is taken to
\* be there still, no other process removing it under the shell.
current_dir == Some(cwd)

\* The path builtin_cd goes to: None when `-` finds no OLDPWD.
expanded_path(path) ==
    IF path = "~"
    THEN (IF IsSome(home_dir) THEN home_dir ELSE Some(path))
    ELSE IF path = "-" THEN env_vars.OLDPWD
    ELSE Some(path)

\* std::env::set_current_dir
CanEnter(target) == target \in Dirs

\* A cd that never saves the directory it leaves.
SavedOldpwd_Never(entered) == env_vars.OLDPWD

\* "Save current directory as OLDPWD": done before set_current_dir, whether
\* or not the directory is entered then.
SavedOldpwd(entered) ==
    IF IsSome(current_dir) THEN current_dir ELSE env_vars.OLDPWD

Remember(calls, call) ==
    LET all == Append(calls, call)
    IN  IF Len(all) > MaxCdCalls THEN Tail(all) ELSE all

CdInit ==
    /\ cwd \in Dirs
    /\ home_dir \in {None, Some("home")}
    /\ env_vars \in [OLDPWD : {None} \cup {Some(d) : d \in Dirs \cup {"nodir"}},
                      PWD : {Some(cwd)}]
    /\ cd_calls = <<>>

CdIdle ==
    /\ cwd = "home"
    /\ home_dir = None
    /\ env_vars = [OLDPWD |-> None, PWD |-> None]
    /\ cd_calls = <<>>

\* Executor::builtin_cd
BuiltinCd ==
    /\ \E path \in CdPaths :
            LET target == expanded_path(path)
                call(ok) == [path |-> path, ok |-> ok, from |-> cwd, target |-> target,
                             oldpwd |-> env_vars.OLDPWD, pwd |-> env_vars.PWD]
            IN  IF target = None
                THEN /\ cd_calls' = Remember(cd_calls, call(FALSE))
                     /\ UNCHANGED <<cwd, env_vars, last_exit_code>>
                ELSE IF ~CanEnter(target[1])
                THEN /\ env_vars' = [env_vars EXCEPT !.OLDPWD = SavedOldpwd(FALSE)]
                     /\ cd_calls' = Remember(cd_calls, call(FALSE))
                     /\ UNCHANGED <<cwd, last_exit_code>>
                ELSE /\ cwd' = target[1]
                     /\ env_vars' = [OLDPWD |-> SavedOldpwd(TRUE), PWD |-> Some(target[1])]
                     /\ last_exit_code' = 0
                     /\ cd_calls' = Remember(cd_calls, call(TRUE))
    /\ UNCHANGED home_dir

-----------------------------------------------------------------------------
(* The claims about cd. *)

\* The call of builtin_cd made last, and the one before it.
LastCd == cd_calls[Len(cd_calls)]

CdBefore == cd_calls[Len(cd_calls) - 1]

FailedToEnter(call) == ~call.ok /\ IsSome(call.target)

\* C38 as stated: if cd fails because the target directory cannot be
\* entered, the working directory, the tracked PWD and the tracked OLDPWD are
\* all unchanged, so a following cd - still goes to the directory it would
\* have gone to before the failed cd.
C38_Original ==
    /\ (Len(cd_calls) >= 1 /\ FailedToEnter(LastCd)) =>
          /\ cwd = LastCd.from
          /\ env_vars.PWD = LastCd.pwd
          /\ env_vars.OLDPWD = LastCd.oldpwd
    /\ (Len(cd_calls) >= 2 /\ FailedToEnter(CdBefore) /\ LastCd.ok /\ LastCd.path = "-") =>
          Some(cwd) = CdBefore.oldpwd

\* In directory e, coming from d, `cd nodir` failed and the `cd -` after it
\* succeeded: the shell is still in e.
C38_Witness ==
    /\ Len(cd_calls) = 2
    /\ CdBefore.path = "nodir" /\ FailedToEnter(CdBefore)
    /\ CdBefore.from = "e"
    /\ CdBefore.oldpwd = Some("d")
    /\ LastCd.path = "-" /\ LastCd.ok
    /\ cwd = "e"
    /\ env_vars.OLDPWD = Some("e")

-----------------------------------------------------------------------------
(***************************************************************************)
(*                       source CALLED FROM source                         *)
(***************************************************************************)

VARIABLES
    source_files,   \* the lines of each script file
    source_stack,   \* the executions of builtin_source on the call stack,
                    \* outermost first: the file and the lines done
    source_pc       \* "ready", "running", "returned", or "overflowed" once
                    \* the stack of the thread is used up

nestVars == <<source_files, source_stack, source_pc>>

\* The script files there are; "nofile" cannot be read.
ScriptFiles == {"f", "g"}

\* Longest script file.
MaxNestedScript == 2

\* The executions of builtin_source that fit on the stack of the thread.
StackLimit == 3

\* A line of a script: an external command that terminates, or source of a
\* file.
NestedLines ==
    {[kind |-> "external", file |-> ""]}
        \cup {[kind |-> "source", file |-> f] : f \in ScriptFiles \cup {"nofile"}}

RECURSIVE NestedScripts(_)
NestedScripts(n) ==
    IF n = 0 THEN {<<>>}
    ELSE LET shorter == NestedScripts(n - 1)
         IN  shorter \cup {Append(sc, l) : sc \in {t \in shorter : Len(t) = n - 1},
                                            l \in NestedLines}

Frame(file) == [file |-> file, line_no |-> 0]

\* The execution of builtin_source on top of the stack.
TopFrame == source_stack[Len(source_stack)]

\* The line done: the `for` loop of the execution on top goes on.
Advance(stack) == [stack EXCEPT ![Len(stack)].line_no = @ + 1]

\* execute_pipeline -> execute_builtin -> builtin_source on a file that can
\* be read: a new execution on top of the caller's.
Enter(stack, file) == Append(stack, Frame(file))

NestInit ==
    /\ source_files \in [ScriptFiles -> NestedScripts(MaxNestedScript)]
    /\ source_stack = <<>>
    /\ source_pc = "ready"

NestIdle ==
    /\ source_files = [f \in ScriptFiles |-> <<>>]
    /\ source_stack = <<>>
    /\ source_pc = "off"

\* `source file` is run at the prompt.
SourceCalled ==
    /\ source_pc = "ready"
    /\ \E f \in ScriptFiles : source_stack' = Enter(source_stack, f)
    /\ source_pc' = "running"
    /\ UNCHANGED source_files

\* One turn of `for line in content.lines()` in the execution on top: an
\* external command runs and terminates; source of a file that cannot be read
\* returns 1; source of a script calls builtin_source again, which needs
\* stack.
SourceTurn ==
    /\ source_pc = "running"
    /\ TopFrame.line_no < Len(source_files[TopFrame.file])
    /\ LET l == source_files[TopFrame.file][TopFrame.line_no + 1]
       IN  IF l.kind = "source" /\ l.file \in ScriptFiles
           THEN LET entered == Enter(source_stack, l.file)
                IN  IF Len(entered) > StackLimit
                    THEN /\ source_pc' = "overflowed"
                         /\ UNCHANGED source_stack
                    ELSE /\ source_stack' = entered
                         /\ UNCHANGED source_pc
           ELSE /\ source_stack' = Advance(source_stack)
                /\ UNCHANGED source_pc
    /\ UNCHANGED source_files

\* The loop of the execution on top is over: builtin_source returns to the
\* loop that called it, or to the prompt.
SourceReturns ==
    /\ source_pc = "running"
    /\ TopFrame.line_no >= Len(source_files[TopFrame.file])
    /\ LET rest == SubSeq(source_stack, 1, Len(source_stack) - 1)
       IN  IF rest = <<>>
           THEN /\ source_stack' = rest
                /\ source_pc' = "returned"
           ELSE /\ source_stack' = Advance(rest)
                /\ UNCHANGED source_pc
    /\ UNCHANGED source_files

-----------------------------------------------------------------------------
(* The claims about nested source. *)

\* C39 as stated: builtin_source returns for every finite script whose
\* external commands terminate, including a script that sources itself or two
\* scripts that source each other: the nesting depth of source executions is
\* bounded.
C39_Original == <>(source_pc = "returned")

\* f sources g and g sources f: the executions of builtin_source have used
\* up the stack, none of them having returned.
C39_Witness ==
    /\ source_pc = "overflowed"
    /\ Len(source_files["f"]) = 1
    /\ Len(source_files["g"]) = 1
    /\ source_files["f"][1] = [kind |-> "source", file |-> "g"]
    /\ source_files["g"][1] = [kind |-> "source", file |-> "f"]
    /\ Len(source_stack) = StackLimit
    /\ \A k \in 1..Len(source_stack) : source_stack[k].line_no = 0

\* A file reaches itself through source lines.
RECURSIVE Reaches(_, _, _)
Reaches(from, to, n) ==
    \E k \in 1..Len(source_files[from]) :
        LET l == source_files[from][k]
        IN  /\ l.kind = "source"
            /\ l.file \in ScriptFiles
            /\ \/ l.file = to
               \/ n > 0 /\ Reaches(l.file, to, n - 1)

Cyclic == \E f \in ScriptFiles : Reaches(f, f, Cardinality(ScriptFiles))

\* Where no script reaches itself, builtin_source returns, and the nesting
\* is no deeper than the files there are.
C39_AcyclicReturns ==
    /\ ~Cyclic ~> source_pc = "returned"
    /\ [](~Cyclic => (source_pc # "overflowed"
                       /\ Len(source_stack) <= Cardinality(ScriptFiles)))

-----------------------------------------------------------------------------
(***************************************************************************)
(*                     THE DISPATCH OF execute_pipeline                    *)
(***************************************************************************)

VARIABLES
    dpc,          \* where execute_pipeline is: "off", "call", "spawn", "returned"
    dcommands,    \* its `commands` argument
    handler,      \* the built-in whose handler execute_builtin ran, if any
    spawn_calls,  \* the programs handed to Command::new(..).spawn(), in order
    dresult       \* what execute_pipeline returned: "none" (not yet), "ok",
                  \* "err", or "exit" (the process exited in the handler)

dispatchVars == <<dpc, dcommands, handler, spawn_calls, dresult>>

\* Longest pipeline handed to the dispatch.
MaxDispatch == 2

\* The names of the fixed built-in set.
BuiltinNames ==
    {<<"c", "d">>, <<"e", "x", "i", "t">>, <<"q", "u", "i", "t">>,
     <<"e", "x", "p", "o", "r", "t">>, <<"u", "n", "s", "e", "t">>,
     <<"h", "i", "s", "t", "o", "r", "y">>, <<"h", "e", "l", "p">>,
     <<"c", "l", "e", "a", "r">>, <<"p", "w", "d">>, <<"a", "l", "i", "a", "s">>,
     <<"s", "o", "u", "r", "c", "e">>, <<".">>}

\* The programs a command names: the built-in names, names next to them, an
\* alias name and a plain program.
DispatchPrograms ==
    BuiltinNames \cup {<<"c", "d", "x">>, <<"C", "d">>, <<"l">>, <<"p">>}

\* The alias tables: none, an alias for a built-in name, a built-in name
\* made an alias.
DispatchAliases ==
    {<<>>,
     Insert(<<>>, <<"l">>, <<<<"c", "d">>>>),
     Insert(<<>>, <<"c", "d">>, <<<<"p">>>>)}

RECURSIVE PipelinesOf(_)
PipelinesOf(n) ==
    IF n = 0 THEN {<<>>}
    ELSE LET shorter == PipelinesOf(n - 1)
         IN  shorter \cup {Append(cs, Plain(prog, <<>>)) :
                               cs \in {t \in shorter : Len(t) = n - 1},
                               prog \in DispatchPrograms}

DispatchInit ==
    /\ dpc = "call"
    /\ dcommands \in PipelinesOf(MaxDispatch)
    /\ handler = None
    /\ spawn_calls = <<>>
    /\ dresult = "none"

\* The executor's alias table at the call.
AliasesAtDispatch ==
    /\ apc = "off"
    /\ alias_value = <<>>
    /\ aliases \in DispatchAliases
    /\ segment = Plain(<<>>, <<>>)
    /\ spawned = None

\* The dispatch when another component is being explored.
DispatchIdle ==
    /\ dpc = "off"
    /\ dcommands = <<>>
    /\ handler = None
    /\ spawn_calls = <<>>
    /\ dresult = "none"

\* execute_pipeline up to execute_external_pipeline: nothing to do for an
\* empty pipeline; a single command whose program from_str knows goes to
\* execute_builtin; anything else goes to execute_external_pipeline.
Dispatch ==
    /\ dpc = "call"
    /\ IF dcommands = <<>>
       THEN /\ dpc' = "returned"
            /\ dresult' = "ok"
            /\ UNCHANGED handler
       ELSE IF Len(dcommands) = 1 /\ IsSome(from_str(dcommands[1].program))
       THEN /\ handler' = from_str(dcommands[1].program)
            /\ dpc' = "returned"
            /\ dresult' \in IF from_str(dcommands[1].program) = Some("Exit")
                             THEN {"exit"} ELSE {"ok", "err"}
       ELSE /\ dpc' = "spawn"
            /\ UNCHANGED <<handler, dresult>>
    /\ UNCHANGED <<dcommands, spawn_calls>>

\* One turn of the loop of execute_external_pipeline: the alias is resolved
\* and the program is handed to spawn, which starts it or fails; a failure
\* returns the error.
SpawnCall ==
    /\ dpc = "spawn"
    /\ Len(spawn_calls) < Len(dcommands)
    /\ spawn_calls' =
          Append(spawn_calls,
                 ExpandAlias(aliases, dcommands[Len(spawn_calls) + 1]).program)
    /\ \/ UNCHANGED <<dpc, dresult>>
       \/ dpc' = "returned" /\ dresult' = "err"
    /\ UNCHANGED <<dcommands, handler>>

\* Every segment is spawned: the children are waited on and the code of the
\* last one is returned.
SpawnedAll ==
    /\ dpc = "spawn"
    /\ Len(spawn_calls) = Len(dcommands)
    /\ dpc' = "returned"
    /\ dresult' = "ok"
    /\ UNCHANGED <<dcommands, handler, spawn_calls>>

-----------------------------------------------------------------------------
(* The dispatch's claims. *)

C25_WitnessBuiltin ==
    /\ dpc = "returned"
    /\ Len(dcommands) = 1
    /\ dcommands[1].program = <<"c", "d">>
    /\ <<"c", "d">> \in DOMAIN aliases
    /\ handler = Some("Cd")
    /\ spawn_calls = <<>>

-----------------------------------------------------------------------------
(***************************************************************************)
(*                            THE HISTORY STORE                            *)
(***************************************************************************)

VARIABLES
    live,                   \* the History instances that exist (file-backed,
                            \* all on the same backing path)
    entries,                \* History.entries of each instance
    pending_entry,          \* History.pending_entry of each instance
    entries_since_compact,  \* History.entries_since_compact of each instance
    hpc,                    \* where each instance is in its current operation
    in_add,                 \* the running compact() was called by add()
    cmp_i,                  \* compact: index of the next entry to write
    fd,                     \* the file each instance's open descriptor refers
                            \* to: "none", "data", "tmp" or "orphan" (a file
                            \* that has lost its path)
    lock,                   \* the instances holding the flock on the sidecar
    data_file,              \* the file at the backing path
    tmp_file,               \* the file at the backing path with extension tmp
    nadds,                  \* entries added so far, by all instances
    nfaults,                \* system calls that have failed so far
    log,                    \* per instance: the command of every entry pushed
                            \* into `entries` since it was last empty
                            \* (construction, clear)
    compacts,               \* per instance, kept while it is alone on its
                            \* path: how many of its latest calls, up to
                            \* two, were compact() calls that returned Ok
    file_before             \* per instance: the backing file when the
                            \* compact() that follows a compact() began

historyVars == <<live, entries, pending_entry, entries_since_compact, hpc, in_add,
                 cmp_i, fd, lock, data_file, tmp_file, nadds, nfaults, log,
                 compacts,
                 file_before>>

\* Two shells on one history file (History::new), and one History made by
\* History::new_memory_only.
FileBacked == {"A", "B"}

MemoryOnly == {"M"}

Insts == FileBacked \cup MemoryOnly

\* A memory-only History that is given a path all the same.
file_path_AlwaysSome(p) == Some("path")

\* History.file_path of each instance: None = memory-only mode.
file_path(p) == IF p \in FileBacked THEN Some("path") ELSE None

\* execute_command: the history of the -c mode.
CommandHistory == "M"

\* History.max_entries, the same for every instance (config.rs keeps it >= 1).
max_entries == 2

\* Entries added in one behaviour by an instance alone on its path.
MaxAdds == 3

\* Entries added in one behaviour by two instances together.
MaxSharedAdds == 2

\* System calls that fail in one behaviour.
MaxFaults == 1

\* The exit codes update_last_exit_code is called with.
Codes == {0}

\* A HistoryEntry: `command` stands for the fields that are set at creation
\* (command, timestamp, cwd, stdout_summary); it names the instance that
\* created the entry and the entry's number.
NewEntry(p, n) == [command |-> <<p, n>>, exit_code |-> None]

\* serde_json::to_string(&entry): the text of one JSON object, with exit_code
\* written as null or as a number.  `torn` marks text that is not the whole
\* of one JSON object, `utf8` text that is valid UTF-8.
Serialize(e) ==
    [torn |-> FALSE,
     utf8 |-> TRUE,
     command |-> e.command,
     exit_code |-> IF IsSome(e.exit_code) THEN [null |-> FALSE, num |-> e.exit_code[1]]
                   ELSE [null |-> TRUE, num |-> 0]]

\* What a write that fails midway leaves of the text of one JSON object.
TornText(chunk) == [chunk EXCEPT !.torn = TRUE]

\* serde_json::from_str::<HistoryEntry>(&line): a line parses when it is the
\* whole text of exactly one JSON object.
Deserialize(line) ==
    IF Len(line) = 1 /\ ~line[1].torn
    THEN Some([command |-> line[1].command,
               exit_code |-> IF line[1].exit_code.null THEN None
                             ELSE Some(line[1].exit_code.num)])
    ELSE None

\* A file: whether the path exists, its newline-terminated lines (each the
\* sequence of texts written into it) and the unterminated text at its end.
NoFile == [exists |-> FALSE, lines |-> <<>>, tail |-> <<>>]

EmptyFile == [exists |-> TRUE, lines |-> <<>>, tail |-> <<>>]

\* write_all(text) at the end of a file
WriteText(f, chunk) == [f EXCEPT !.tail = Append(@, chunk)]

\* write_all("\n") at the end of a file
WriteNewline(f) == [f EXCEPT !.lines = Append(@, f.tail), !.tail = <<>>]

\* BufRead::lines: the terminated lines, then the unterminated rest if any.
LinesOf(f) == IF f.tail = <<>> THEN f.lines ELSE Append(f.lines, f.tail)

\* A push that never evicts.
PushBounded_NoEviction(es, e) == Append(es, e)

\* push_back, then pop_front when over max_entries.
PushBounded(es, e) ==
    LET pushed == Append(es, e)
    IN  IF Len(pushed) > max_entries THEN Tail(pushed) ELSE pushed

\* History::load: the entries held after reading the lines `ls` into `es`.
RECURSIVE LoadLines(_, _)
LoadLines(es, ls) ==
    IF ls = <<>> THEN es
    ELSE LET e == Deserialize(Head(ls))
         IN  LoadLines(IF IsSome(e) THEN PushBounded(es, e[1]) ELSE es, Tail(ls))

\* BufRead::lines yields Ok for a line that is valid UTF-8, and Err for one
\* that is not.
IsReadable(line) == \A k \in 1..Len(line) : line[k].utf8

\* reader.lines().map_while(Result::ok): the lines up to the first one that
\* cannot be read.
RECURSIVE ReadablePrefix(_)
ReadablePrefix(ls) ==
    IF ls = <<>> \/ ~IsReadable(Head(ls)) THEN <<>>
    ELSE <<Head(ls)>> \o ReadablePrefix(Tail(ls))

\* History::load on the file at the backing path.
Load(f) == IF f.exists THEN LoadLines(<<>>, ReadablePrefix(LinesOf(f))) ELSE <<>>

\* The valid entries of a list of lines, in order: those of the lines that
\* can be read and that parse.
RECURSIVE ValidEntries(_)
ValidEntries(ls) ==
    IF ls = <<>> THEN <<>>
    ELSE LET e == Deserialize(Head(ls))
         IN  (IF IsReadable(Head(ls)) /\ IsSome(e) THEN <<e[1]>> ELSE <<>>)
             \o ValidEntries(Tail(ls))

\* An entries_to_write that does not skip the pending entry.
EntriesToWrite_All(es, pending) == Len(es)

\* compact: entries_to_write, for the entries `es` and the pending flag.
EntriesToWrite(es, pending) ==
    IF pending /\ es # <<>> THEN Len(es) - 1 ELSE Len(es)

\* A lock that is granted whoever holds it.
LockGranted_Always(p, holders) == TRUE

\* flock(LOCK_EX) on the sidecar returns for `p` only when nobody holds it.
\* (`p` itself never holds it here: every operation takes it once.)
LockGranted(p, holders) == holders = {}

\* The commands of a list of entries.
CommandsOf(es) == [k \in 1..Len(es) |-> es[k].command]

\* The newest entry of an instance (entries.back()).
Back(es) == es[Len(es)]

\* Every descriptor after the file at the backing path is replaced by the
\* temp file (rename) or unlinked (remove_file): a descriptor on the old file
\* keeps a file without a path, one on the temp file follows it to the
\* backing path.
FdsAfterRename == [q \in Insts |->
                      CASE fd[q] = "data" -> "orphan"
                        [] fd[q] = "tmp"  -> "data"
                        [] OTHER          -> fd[q]]

FdsAfterRemove == [q \in Insts |-> IF fd[q] = "data" THEN "orphan" ELSE fd[q]]

-----------------------------------------------------------------------------
(* The history store's actions.  Every action is one step of one instance:  *)
(* the in-memory part of a call, or one system call of its file part.       *)

HistoryInitFor(instances) ==
    /\ live = instances
    /\ entries = [p \in Insts |-> <<>>]
    /\ pending_entry = [p \in Insts |-> FALSE]
    /\ entries_since_compact = [p \in Insts |-> 0]
    /\ hpc = [p \in Insts |-> "idle"]
    /\ in_add = [p \in Insts |-> FALSE]
    /\ cmp_i = [p \in Insts |-> 0]
    /\ fd = [p \in Insts |-> "none"]
    /\ lock = {}
    /\ data_file = NoFile
    /\ tmp_file = NoFile
    /\ nadds = 0
    /\ nfaults = 0
    /\ log = [p \in Insts |-> <<>>]
    /\ compacts = [p \in Insts |-> 0]
    /\ file_before = [p \in Insts |-> NoFile]

\* History::new on a path with no file yet, for both instances.
HistoryInit == HistoryInitFor(FileBacked)

\* History::new for one instance alone on its path.
HistoryInitSingle == HistoryInitFor({"A"})

\* History::new_memory_only for the -c mode, beside an interactive shell with
\* its History on a path.
HistoryInitMemory == HistoryInitFor({"A", CommandHistory})

\* The history store when another component is being explored.
HistoryIdle == HistoryInitFor({})

\* Most lines of a backing file found at construction.
MaxFileLines == 3

\* Entries found in a backing file: written by an earlier shell, with an exit
\* code or (see C5) without one.
StoredEntries ==
    {[command |-> <<"old", k>>, exit_code |-> Some(0)] : k \in 1..2}
    \cup {[command |-> <<"old", 3>>, exit_code |-> None]}

\* Text that is not a HistoryEntry: a foreign or partly written line.
ForeignText ==
    [torn |-> TRUE, utf8 |-> TRUE, command |-> <<"other", 0>>,
     exit_code |-> [null |-> TRUE, num |-> 0]]

\* Bytes that are not valid UTF-8.
InvalidBytes == [ForeignText EXCEPT !.utf8 = FALSE]

\* The lines a backing file may be made of.
FileLines == {<<Serialize(e)>> : e \in StoredEntries}
             \cup {<<ForeignText>>, <<InvalidBytes>>}

RECURSIVE LineSeqs(_)
LineSeqs(n) ==
    IF n = 0 THEN {<<>>}
    ELSE LET shorter == LineSeqs(n - 1)
         IN  shorter \cup {Append(ls, l) : ls \in {t \in shorter : Len(t) = n - 1},
                                            l \in FileLines}

\* The backing files a History may be constructed from: none, or a file of
\* newline-terminated lines.
BackingFiles ==
    {NoFile} \cup {[exists |-> TRUE, lines |-> ls, tail |-> <<>>] :
                      ls \in LineSeqs(MaxFileLines)}

\* One instance about to be constructed on a path that holds one of `files`.
HistoryInitOn(files) ==
    /\ live = {"A"}
    /\ entries = [p \in Insts |-> <<>>]
    /\ pending_entry = [p \in Insts |-> FALSE]
    /\ entries_since_compact = [p \in Insts |-> 0]
    /\ hpc = [p \in Insts |-> IF p = "A" THEN "new" ELSE "idle"]
    /\ in_add = [p \in Insts |-> FALSE]
    /\ cmp_i = [p \in Insts |-> 0]
    /\ fd = [p \in Insts |-> "none"]
    /\ lock = {}
    /\ data_file \in files
    /\ tmp_file = NoFile
    /\ nadds = 0
    /\ nfaults = 0
    /\ log = [p \in Insts |-> <<>>]
    /\ compacts = [p \in Insts |-> 0]
    /\ file_before = [p \in Insts |-> NoFile]

\* One instance about to be constructed on a path whose file some earlier
\* program left.
HistoryInitLoad == HistoryInitOn(BackingFiles)

\* The backing files of at most max_entries lines.
ShortFiles == {f \in BackingFiles : Len(f.lines) <= max_entries}

\* One instance about to be constructed on a file of at most max_entries
\* lines.
HistoryInitShort == HistoryInitOn(ShortFiles)

\* The instance is the only one on its path.
Alone(p) == live = {p}

\* A call other than compact() is made, or a call returns Err.
NotACompact(p) ==
    /\ compacts' = [compacts EXCEPT ![p] = 0]
    /\ file_before' = [file_before EXCEPT ![p] = NoFile]

\* An add that never compacts.
Add_NeverCompacts(p) ==
    /\ p \in live
    /\ hpc[p] = "idle"
    /\ nadds < (IF Cardinality(live) = 1 THEN MaxAdds ELSE MaxSharedAdds)
    /\ LET e == NewEntry(p, nadds + 1)
       IN  /\ entries' = [entries EXCEPT ![p] = PushBounded(@, e)]
           /\ log' = [log EXCEPT ![p] = Append(@, e.command)]
    /\ nadds' = nadds + 1
    /\ pending_entry' = [pending_entry EXCEPT ![p] = TRUE]
    /\ entries_since_compact' = [entries_since_compact EXCEPT ![p] = @ + 1]
    /\ NotACompact(p)
    /\ UNCHANGED <<live, nfaults, cmp_i, fd, lock, data_file, tmp_file, hpc, in_add>>

\* History::add, up to the call of compact(): the entry is pushed, marked
\* pending and counted; compaction is due when the count reaches max_entries.
Add(p) ==
    /\ p \in live
    /\ hpc[p] = "idle"
    /\ nadds < (IF Cardinality(live) = 1 THEN MaxAdds ELSE MaxSharedAdds)
    /\ LET e == NewEntry(p, nadds + 1)
       IN  /\ entries' = [entries EXCEPT ![p] = PushBounded(@, e)]
           /\ log' = [log EXCEPT ![p] = Append(@, e.command)]
    /\ nadds' = nadds + 1
    /\ pending_entry' = [pending_entry EXCEPT ![p] = TRUE]
    /\ entries_since_compact' = [entries_since_compact EXCEPT ![p] = @ + 1]
    /\ IF IsSome(file_path(p)) /\ entries_since_compact[p] + 1 >= max_entries
       THEN /\ hpc' = [hpc EXCEPT ![p] = "cmp_lock"]
            /\ in_add' = [in_add EXCEPT ![p] = TRUE]
       ELSE UNCHANGED <<hpc, in_add>>
    /\ NotACompact(p)
    /\ UNCHANGED <<live, nfaults, cmp_i, fd, lock, data_file, tmp_file>>

\* History::update_last_exit_code, up to acquire_lock: the newest entry gets
\* the code; the file part follows when that entry is pending.
UpdateLastExitCodeWith(p, code) ==
    /\ p \in live
    /\ hpc[p] = "idle"
    /\ IF entries[p] = <<>>
       THEN UNCHANGED <<entries, hpc>>
       ELSE /\ entries' = [entries EXCEPT ![p][Len(entries[p])].exit_code = Some(code)]
            /\ hpc' = [hpc EXCEPT ![p] = IF IsSome(file_path(p)) /\ pending_entry[p]
                                          THEN "upd_lock" ELSE @]
    /\ NotACompact(p)
    /\ UNCHANGED <<live, nfaults, pending_entry, entries_since_compact, in_add, cmp_i, fd,
                   lock, data_file, tmp_file, nadds, log>>

\* update_last_exit_code called with one of the codes explored.
UpdateLastExitCode(p) == \E code \in Codes : UpdateLastExitCodeWith(p, code)

\* History::compact called directly, up to acquire_lock; in memory-only mode
\* it returns Ok at once.
Compact(p) ==
    /\ p \in live
    /\ hpc[p] = "idle"
    /\ IF IsSome(file_path(p))
       THEN /\ hpc' = [hpc EXCEPT ![p] = "cmp_lock"]
            /\ in_add' = [in_add EXCEPT ![p] = FALSE]
            /\ file_before' = [file_before EXCEPT ![p] =
                                  IF Alone(p) /\ compacts[p] >= 1 THEN data_file
                                  ELSE NoFile]
       ELSE UNCHANGED <<hpc, in_add, file_before>>
    /\ UNCHANGED <<live, nfaults, entries, pending_entry, entries_since_compact, cmp_i, fd,
                   lock, data_file, tmp_file, nadds, log, compacts>>

\* History::acquire_lock: the sidecar is opened and flock returns.
AcquireLock(p) ==
    /\ p \in live
    /\ hpc[p] \in {"upd_lock", "cmp_lock"}
    /\ LockGranted(p, lock)
    /\ lock' = lock \cup {p}
    /\ hpc' = [hpc EXCEPT ![p] = IF @ = "upd_lock" THEN "upd_open" ELSE "cmp_create"]
    /\ UNCHANGED <<live, nfaults, entries, pending_entry, entries_since_compact, in_add,
                   cmp_i, fd, data_file, tmp_file, nadds, log, compacts,
                   file_before>>

\* update_last_exit_code: the backing file is opened for append, created if
\* it is not there.
UpdOpen(p) ==
    /\ p \in live
    /\ hpc[p] = "upd_open"
    /\ data_file' = IF data_file.exists THEN data_file ELSE EmptyFile
    /\ fd' = [fd EXCEPT ![p] = "data"]
    /\ hpc' = [hpc EXCEPT ![p] = "upd_write"]
    /\ UNCHANGED <<live, nfaults, entries, pending_entry, entries_since_compact, in_add,
                   cmp_i, lock, tmp_file, nadds, log, compacts, file_before>>

\* A write of text through the descriptor of `p`: it lands in the file the
\* descriptor refers to, at its end.
WriteTextThroughFd(p, chunk) ==
    /\ data_file' = IF fd[p] = "data" THEN WriteText(data_file, chunk) ELSE data_file
    /\ tmp_file' = IF fd[p] = "tmp" THEN WriteText(tmp_file, chunk) ELSE tmp_file

\* A write of a newline through the descriptor of `p`.
WriteNewlineThroughFd(p) ==
    /\ data_file' = IF fd[p] = "data" THEN WriteNewline(data_file) ELSE data_file
    /\ tmp_file' = IF fd[p] = "tmp" THEN WriteNewline(tmp_file) ELSE tmp_file

\* update_last_exit_code: writeln! writes the text of the newest entry ...
UpdWrite(p) ==
    /\ p \in live
    /\ hpc[p] = "upd_write"
    /\ WriteTextThroughFd(p, Serialize(Back(entries[p])))
    /\ hpc' = [hpc EXCEPT ![p] = "upd_newline"]
    /\ UNCHANGED <<live, nfaults, entries, pending_entry, entries_since_compact, in_add,
                   cmp_i, fd, lock, nadds, log, compacts, file_before>>

\* ... and then the newline.
UpdNewline(p) ==
    /\ p \in live
    /\ hpc[p] = "upd_newline"
    /\ WriteNewlineThroughFd(p)
    /\ hpc' = [hpc EXCEPT ![p] = "upd_finish"]
    /\ UNCHANGED <<live, nfaults, entries, pending_entry, entries_since_compact, in_add,
                   cmp_i, fd, lock, nadds, log, compacts, file_before>>

\* An update_last_exit_code that leaves the pending flag set.
UpdFinish_KeepsPending(p) ==
    /\ p \in live
    /\ hpc[p] = "upd_finish"
    /\ fd' = [fd EXCEPT ![p] = "none"]
    /\ lock' = lock \ {p}
    /\ hpc' = [hpc EXCEPT ![p] = "idle"]
    /\ UNCHANGED <<live, nfaults, entries, pending_entry, entries_since_compact, in_add,
                   cmp_i, data_file, tmp_file, nadds, log, compacts, file_before>>

\* update_last_exit_code: flush, the pending flag is cleared, and the return
\* closes the file and then the sidecar, which releases the lock.
UpdFinish(p) ==
    /\ p \in live
    /\ hpc[p] = "upd_finish"
    /\ pending_entry' = [pending_entry EXCEPT ![p] = FALSE]
    /\ fd' = [fd EXCEPT ![p] = "none"]
    /\ lock' = lock \ {p}
    /\ hpc' = [hpc EXCEPT ![p] = "idle"]
    /\ UNCHANGED <<live, nfaults, entries, entries_since_compact, in_add, cmp_i, data_file,
                   tmp_file, nadds, log, compacts, file_before>>

\* A compact that rewrites the backing file in place.
CmpCreate_InPlace(p) ==
    /\ p \in live
    /\ hpc[p] = "cmp_create"
    /\ data_file' = EmptyFile
    /\ fd' = [fd EXCEPT ![p] = "data"]
    /\ cmp_i' = [cmp_i EXCEPT ![p] = 0]
    /\ hpc' = [hpc EXCEPT ![p] = "cmp_write"]
    /\ UNCHANGED <<live, nfaults, entries, pending_entry, entries_since_compact, in_add,
                   lock, tmp_file, nadds, log, compacts, file_before>>

\* compact: the temp file is created, or truncated if it is there.
CmpCreate(p) ==
    /\ p \in live
    /\ hpc[p] = "cmp_create"
    /\ tmp_file' = EmptyFile
    /\ fd' = [fd EXCEPT ![p] = "tmp"]
    /\ cmp_i' = [cmp_i EXCEPT ![p] = 0]
    /\ hpc' = [hpc EXCEPT ![p] = "cmp_write"]
    /\ UNCHANGED <<live, nfaults, entries, pending_entry, entries_since_compact, in_add,
                   lock, data_file, nadds, log, compacts, file_before>>

\* compact: one turn of the loop over the first entries_to_write entries,
\* writeln! writing the text of the entry; or, with none left, flush and the
\* file is closed.
CmpWrite(p) ==
    /\ p \in live
    /\ hpc[p] = "cmp_write"
    /\ IF cmp_i[p] < EntriesToWrite(entries[p], pending_entry[p])
       THEN /\ WriteTextThroughFd(p, Serialize(entries[p][cmp_i[p] + 1]))
            /\ hpc' = [hpc EXCEPT ![p] = "cmp_newline"]
            /\ UNCHANGED fd
       ELSE /\ hpc' = [hpc EXCEPT ![p] = "cmp_rename"]
            /\ fd' = [fd EXCEPT ![p] = "none"]
            /\ UNCHANGED <<data_file, tmp_file>>
    /\ UNCHANGED <<live, nfaults, entries, pending_entry, entries_since_compact, in_add,
                   cmp_i, lock, nadds, log, compacts, file_before>>

\* ... and then the newline of that entry.
CmpNewline(p) ==
    /\ p \in live
    /\ hpc[p] = "cmp_newline"
    /\ WriteNewlineThroughFd(p)
    /\ cmp_i' = [cmp_i EXCEPT ![p] = @ + 1]
    /\ hpc' = [hpc EXCEPT ![p] = "cmp_write"]
    /\ UNCHANGED <<live, nfaults, entries, pending_entry, entries_since_compact, in_add,
                   fd, lock, nadds, log, compacts, file_before>>

\* A return of Err that keeps the lock file open.
ReturnErr_KeepsLock(p) ==
    /\ hpc' = [hpc EXCEPT ![p] = "idle"]
    /\ fd' = [fd EXCEPT ![p] = "none"]
    /\ lock' = lock
    /\ in_add' = [in_add EXCEPT ![p] = FALSE]
    /\ NotACompact(p)

\* The return of Err from the file part of an operation: every local is
\* dropped, so the file is closed and the lock, if held, released; add()
\* returns the error of compact() without resetting its counter.
ReturnErr(p) ==
    /\ hpc' = [hpc EXCEPT ![p] = "idle"]
    /\ fd' = [fd EXCEPT ![p] = "none"]
    /\ lock' = lock \ {p}
    /\ in_add' = [in_add EXCEPT ![p] = FALSE]
    /\ NotACompact(p)

\* compact: the temp file is renamed over the backing file and compact
\* returns Ok, which releases the lock; add() then resets its counter.  With
\* no temp file at the path the rename fails.
CmpRename(p) ==
    /\ p \in live
    /\ hpc[p] = "cmp_rename"
    /\ IF tmp_file.exists
       THEN /\ data_file' = tmp_file
            /\ tmp_file' = NoFile
            /\ fd' = [FdsAfterRename EXCEPT ![p] = "none"]
            /\ lock' = lock \ {p}
            /\ hpc' = [hpc EXCEPT ![p] = "idle"]
            /\ entries_since_compact' =
                  [entries_since_compact EXCEPT ![p] = IF in_add[p] THEN 0 ELSE @]
            /\ in_add' = [in_add EXCEPT ![p] = FALSE]
            /\ compacts' = [compacts EXCEPT ![p] =
                               IF in_add[p] \/ ~Alone(p) THEN 0
                               ELSE IF @ = 0 THEN 1 ELSE 2]
            /\ UNCHANGED file_before
       ELSE /\ ReturnErr(p)
            /\ UNCHANGED <<data_file, tmp_file, entries_since_compact>>
    /\ UNCHANGED <<live, nfaults, entries, pending_entry, cmp_i, nadds, log>>

\* History::clear, up to remove_file: the entries are dropped, and the
\* backing file is looked for.
Clear(p) ==
    /\ p \in live
    /\ hpc[p] = "idle"
    /\ entries' = [entries EXCEPT ![p] = <<>>]
    /\ log' = [log EXCEPT ![p] = <<>>]
    /\ hpc' = [hpc EXCEPT ![p] = IF IsSome(file_path(p)) /\ data_file.exists
                                  THEN "clr_remove" ELSE @]
    /\ NotACompact(p)
    /\ UNCHANGED <<live, nfaults, pending_entry, entries_since_compact, in_add, cmp_i, fd,
                   lock, data_file, tmp_file, nadds>>

\* clear: remove_file on the backing path, which fails when the file is no
\* longer there.
ClrRemove(p) ==
    /\ p \in live
    /\ hpc[p] = "clr_remove"
    /\ IF data_file.exists
       THEN /\ data_file' = NoFile
            /\ fd' = FdsAfterRemove
            /\ hpc' = [hpc EXCEPT ![p] = "idle"]
            /\ UNCHANGED <<lock, in_add, compacts, file_before>>
       ELSE /\ ReturnErr(p)
            /\ UNCHANGED data_file
    /\ UNCHANGED <<live, nfaults, entries, pending_entry, entries_since_compact, cmp_i,
                   tmp_file, nadds, log>>

\* History::new: the fields are set and load() reads the backing file.
New(p) ==
    /\ p \in live
    /\ IsSome(file_path(p))
    /\ hpc[p] = "new"
    /\ entries' = [entries EXCEPT ![p] = Load(data_file)]
    /\ log' = [log EXCEPT ![p] =
                  CommandsOf(ValidEntries(ReadablePrefix(LinesOf(data_file))))]
    /\ pending_entry' = [pending_entry EXCEPT ![p] = FALSE]
    /\ entries_since_compact' = [entries_since_compact EXCEPT ![p] = 0]
    /\ hpc' = [hpc EXCEPT ![p] = "idle"]
    /\ UNCHANGED <<live, nfaults, lock, data_file, tmp_file, nadds, in_add, cmp_i, fd,
                   compacts, file_before>>

\* The shell of an instance ends outside any lock-held section (it exits or
\* crashes) and a new one starts on the same path: History::new loads the
\* backing file.
Restart(p) ==
    /\ p \in live
    /\ IsSome(file_path(p))
    /\ p \notin lock
    /\ hpc[p] \in {"idle", "upd_lock", "cmp_lock", "clr_remove"}
    /\ entries' = [entries EXCEPT ![p] = Load(data_file)]
    /\ log' = [log EXCEPT ![p] =
                  CommandsOf(ValidEntries(ReadablePrefix(LinesOf(data_file))))]
    /\ pending_entry' = [pending_entry EXCEPT ![p] = FALSE]
    /\ entries_since_compact' = [entries_since_compact EXCEPT ![p] = 0]
    /\ hpc' = [hpc EXCEPT ![p] = "idle"]
    /\ in_add' = [in_add EXCEPT ![p] = FALSE]
    /\ cmp_i' = [cmp_i EXCEPT ![p] = 0]
    /\ fd' = [fd EXCEPT ![p] = "none"]
    /\ NotACompact(p)
    /\ UNCHANGED <<live, nfaults, lock, data_file, tmp_file, nadds>>

\* The steps at which a system call may fail.
FailurePoints == {"upd_lock", "upd_open", "upd_write", "upd_newline",
                  "cmp_lock", "cmp_create", "cmp_write", "cmp_newline",
                  "cmp_rename", "clr_remove"}

\* A system call fails having done nothing, and the operation returns Err.
\* (A newline that fails leaves the text written before it unterminated.)
IoError(p) ==
    /\ p \in live
    /\ nfaults < MaxFaults
    /\ nfaults' = nfaults + 1
    /\ hpc[p] \in FailurePoints
    /\ hpc[p] = "cmp_write" => cmp_i[p] < EntriesToWrite(entries[p], pending_entry[p])
    /\ ReturnErr(p)
    /\ UNCHANGED <<live, entries, pending_entry, entries_since_compact, cmp_i,
                   data_file, tmp_file, nadds, log>>

\* A write of an entry's text fails midway: part of the text is in the file,
\* and the operation returns Err.
TornWrite(p) ==
    /\ p \in live
    /\ nfaults < MaxFaults
    /\ nfaults' = nfaults + 1
    /\ hpc[p] \in {"upd_write", "cmp_write"}
    /\ hpc[p] = "cmp_write" => cmp_i[p] < EntriesToWrite(entries[p], pending_entry[p])
    /\ LET e == IF hpc[p] = "upd_write" THEN Back(entries[p])
                ELSE entries[p][cmp_i[p] + 1]
       IN  WriteTextThroughFd(p, TornText(Serialize(e)))
    /\ ReturnErr(p)
    /\ UNCHANGED <<live, entries, pending_entry, entries_since_compact, cmp_i,
                   nadds, log>>

-----------------------------------------------------------------------------
(* The history store's claims. *)

\* The instance is inside a lock-held section of update_last_exit_code or
\* compact.
InLockedSection(p) ==
    hpc[p] \in {"upd_open", "upd_write", "upd_newline", "upd_finish",
                "cmp_create", "cmp_write", "cmp_newline", "cmp_rename"}

\* The last n elements of a sequence (all of it when it is shorter).
LastN(sq, n) == IF Len(sq) <= n THEN sq ELSE SubSeq(sq, Len(sq) - n + 1, Len(sq))

\* The entries a compaction leaves out of the file: the in-memory entries
\* without the newest one when that one is pending.
WithoutPending(es, pending) ==
    IF pending /\ es # <<>> THEN SubSeq(es, 1, Len(es) - 1) ELSE es

\* C1: with two History instances on one path, under every interleaving of
\* their operations (update_last_exit_code and compact among them) and of
\* instances ending outside a lock-held section and starting again, with no
\* system call failing: every line of the backing file is the whole text of
\* exactly one entry, never text of two writes mixed; and text without its
\* newline is in the file only while the instance that holds the lock is
\* between the two writes of its append, so that outside the lock-held
\* sections a write is in the file whole or not at all.
C1_NoMixedLines ==
    /\ \A k \in 1..Len(data_file.lines) : IsSome(Deserialize(data_file.lines[k]))
    /\ data_file.tail # <<>> =>
          \E p \in lock :
              /\ hpc[p] = "upd_newline"
              /\ fd[p] = "data"
              /\ data_file.tail = <<Serialize(Back(entries[p]))>>
    /\ (\A p \in live : ~InLockedSection(p)) => data_file.tail = <<>>

\* One instance is between the two writes of its append, on a file that
\* already holds a line, while the other waits for the lock to compact.
C1_Witness ==
    /\ hpc["A"] = "upd_newline"
    /\ fd["A"] = "data"
    /\ hpc["B"] = "cmp_lock"
    /\ Len(data_file.lines) >= 1
    /\ data_file.tail # <<>>

\* C2: every change to the backing file (the creation and the append in
\* update_last_exit_code, the rename in compact, the removal in clear) is
\* made by a step of an instance that holds the sidecar lock, and an instance
\* that has returned from an operation does not hold the lock.
C2_Original ==
    [][ /\ data_file' # data_file => \E p \in lock : hpc'[p] # hpc[p]
        /\ \A p \in live : hpc'[p] = "idle" => p \notin lock' ]_historyVars

\* clear() has removed the backing file while the other instance held the
\* lock and was between the two writes of its append: that instance's
\* descriptor is on a file that has lost its path.
C2_Witness ==
    /\ "A" \in lock
    /\ hpc["A"] = "upd_newline"
    /\ fd["A"] = "orphan"
    /\ hpc["B"] = "idle"
    /\ ~data_file.exists

\* C3: the in-memory history never holds more than max_entries entries, and
\* holds the last max_entries entries pushed into it since it was empty, in
\* the order they were pushed: after max_entries + k pushes the oldest entry
\* held is the (k+1)-th pushed.
C3_BoundedInOrder ==
    \A p \in live :
        /\ Len(entries[p]) <= max_entries
        /\ CommandsOf(entries[p]) = LastN(log[p], max_entries)

\* max_entries + 1 entries were added to an empty history: the first was
\* evicted and the second is the oldest held.
C3_Witness ==
    /\ hpc["A"] = "idle"
    /\ Len(log["A"]) = max_entries + 1
    /\ log["A"][1] = <<"A", 1>>
    /\ Len(entries["A"]) = max_entries
    /\ entries["A"][1].command = <<"A", 2>>

\* C4: for one History alone on its path, once compact() has returned Ok a
\* History constructed from the same path holds the in-memory entries in the
\* same order, without the newest one if it is still pending; and a compact()
\* that follows a compact() leaves the file as it was.
C4_CompactThenReload ==
    \A p \in live :
        (Alone(p) /\ hpc[p] = "idle" /\ compacts[p] >= 1) =>
            /\ Load(data_file) = WithoutPending(entries[p], pending_entry[p])
            /\ compacts[p] = 2 => data_file = file_before[p]

\* compact() was called twice in a row on a history of two entries whose
\* newest entry is pending, and the file holds the other one.
C4_Witness ==
    /\ hpc["A"] = "idle"
    /\ compacts["A"] = 2
    /\ pending_entry["A"]
    /\ Len(entries["A"]) >= 2
    /\ Len(data_file.lines) = Len(entries["A"]) - 1

\* C5: every entry line of the backing file has a non-null exit_code.
C5_Original ==
    \A k \in 1..Len(data_file.lines) :
        LET e == Deserialize(data_file.lines[k])
        IN  IsSome(e) => IsSome(e[1].exit_code)

\* Two adds with no update_last_exit_code between them: the compaction run
\* by the second add wrote the first entry, whose exit code was never set.
C5_Witness ==
    /\ hpc["A"] = "idle"
    /\ nadds = 2
    /\ Len(entries["A"]) = 2
    /\ entries["A"][1].exit_code = None
    /\ data_file.lines = <<<<Serialize(entries["A"][1])>>>>

\* The instance is inside compact(), from acquire_lock to the rename.
InCompact(p) ==
    hpc[p] \in {"cmp_lock", "cmp_create", "cmp_write", "cmp_newline", "cmp_rename"}

\* C23: for one History alone on its path, with system calls failing, no step
\* of compact() changes the backing file but the rename that succeeds, which
\* puts the temp file in its place; so when compact() fails at the lock, at
\* the creation of the temp file, at a write or at the rename, the backing
\* file is what it was before the call.
C23_OnlyRenameChangesFile ==
    [][ \A p \in live :
          (Alone(p) /\ InCompact(p)) =>
              \/ data_file' = data_file
              \/ /\ hpc[p] = "cmp_rename"
                 /\ hpc'[p] = "idle"
                 /\ tmp_file.exists
                 /\ data_file' = tmp_file
                 /\ nfaults' = nfaults ]_historyVars

\* compact() has failed at a write after the first entry was written to the
\* temp file: the temp file is left behind with part of the history, and the
\* backing file still holds the lines it held.
C23_Witness ==
    /\ hpc["A"] = "idle"
    /\ nfaults = 1
    /\ tmp_file.exists
    /\ Len(tmp_file.lines) = 1
    /\ Len(entries["A"]) = 2
    /\ ~pending_entry["A"]
    /\ Len(data_file.lines) >= 2
    /\ tmp_file.lines # data_file.lines

\* The step changes a field of the instance or moves it on in a call.
StepOf(p) ==
    \/ entries'[p] # entries[p]
    \/ pending_entry'[p] # pending_entry[p]
    \/ entries_since_compact'[p] # entries_since_compact[p]
    \/ hpc'[p] # hpc[p]

\* C24: a History made by new_memory_only, as the one execute_command makes
\* for the -c mode, makes no file-system operation in any sequence of add,
\* update_last_exit_code, compact and clear calls: its calls return in one
\* step, it never opens or locks a file, and no step of it changes the lock
\* file, the backing file or the temp file that a file-backed History
\* beside it works on.
C24_MemoryOnlyTouchesNoFile ==
    [][ /\ CommandHistory \in MemoryOnly
        /\ \A p \in live \cap MemoryOnly :
              /\ file_path(p) = None
              /\ hpc'[p] = "idle" /\ fd'[p] = "none" /\ p \notin lock'
              /\ StepOf(p) => /\ data_file' = data_file
                              /\ tmp_file' = tmp_file
                              /\ lock' = lock
                              /\ fd' = fd ]_historyVars

\* The memory-only History has been through two adds, which is when a
\* file-backed History compacts, and an update_last_exit_code, beside a
\* backing file that the other History has created.
C24_Witness ==
    /\ hpc["M"] = "idle"
    /\ Len(entries["M"]) = 2
    /\ entries_since_compact["M"] >= max_entries
    /\ IsSome(entries["M"][2].exit_code)
    /\ pending_entry["M"]
    /\ data_file.exists
    /\ ~tmp_file.exists
    /\ lock = {}

\* No entry is in the backing file more than once: no two of its lines,
\* the unterminated text at its end included, hold the text of one entry.
NoEntryTwice ==
    LET ls == LinesOf(data_file)
    IN  \A j, k \in 1..Len(ls) :
            \A a \in 1..Len(ls[j]), b \in 1..Len(ls[k]) :
                (ls[j][a].command = ls[k][b].command) => (j = k /\ a = b)

\* C27: for one file-backed History alone on its path, while no system call
\* has failed: update_last_exit_code goes on to its file part only when the
\* newest entry is pending, and otherwise leaves the file alone; its file
\* part adds to the backing file the text of the newest entry and its
\* newline, one line, and nothing else; and no entry is ever in the backing
\* file more than once.
C27_OneLinePerEntry ==
    [][ \A p \in live :
          (Alone(p) /\ nfaults' = 0) =>
              /\ (hpc[p] = "idle" /\ hpc'[p] = "upd_lock") =>
                    pending_entry[p] /\ data_file' = data_file
              /\ (hpc[p] = "idle" /\ hpc'[p] = "idle" /\ entries'[p] # <<>>
                     /\ Len(entries'[p]) = Len(entries[p])
                     /\ nadds' = nadds) =>
                    data_file' = data_file
              /\ hpc[p] \in {"upd_lock", "upd_finish"} => data_file' = data_file
              /\ hpc[p] = "upd_open" =>
                    data_file'.exists /\ LinesOf(data_file') = LinesOf(data_file)
              /\ hpc[p] = "upd_write" =>
                    /\ data_file'.lines = data_file.lines
                    /\ data_file'.tail = <<Serialize(Back(entries[p]))>>
              /\ hpc[p] = "upd_newline" =>
                    /\ data_file'.lines =
                          Append(data_file.lines, <<Serialize(Back(entries[p]))>>)
                    /\ data_file'.tail = <<>>
              /\ hpc'[p] = "upd_finish" => pending_entry[p]
              /\ (hpc[p] = "upd_finish" /\ hpc'[p] = "idle") => ~pending_entry'[p]
              /\ NoEntryTwice' ]_historyVars

\* Three entries have been added and update_last_exit_code has appended the
\* newest, after the compaction of the second add: the file holds the three
\* entries once each, the newest last, and it is not pending.
C27_Witness ==
    /\ hpc["A"] = "idle"
    /\ nfaults = 0
    /\ nadds = 3
    /\ ~pending_entry["A"]
    /\ Len(data_file.lines) = 3
    /\ \A k \in 1..3 : data_file.lines[k][1].command = <<"A", k>>
    /\ data_file.lines[3] = <<Serialize(Back(entries["A"]))>>
    /\ data_file.tail = <<>>

\* The step is the in-memory part of add() by the instance.
IsAdd(p) == hpc[p] = "idle" /\ nadds' = nadds + 1 /\ Len(log'[p]) = Len(log[p]) + 1

\* The step makes add() go on to compact().
TriggersCompaction(p) == hpc'[p] = "cmp_lock" /\ in_add'[p]

\* The step ends the compact() that add() called.
EndsCompactionOfAdd(p) == InCompact(p) /\ in_add[p] /\ hpc'[p] = "idle"

C28_WitnessFailure ==
    /\ hpc["A"] = "idle"
    /\ nfaults = 1
    /\ entries_since_compact["A"] >= max_entries
    /\ Len(data_file.lines) = 2 * max_entries

\* The instance is blocked in acquire_lock.
Waiting(p) == hpc[p] \in {"upd_lock", "cmp_lock"}

HasLineOf(f, e) == \E k \in 1..Len(f.lines) : f.lines[k] = <<Serialize(e)>>

\* Entry k of instance q was flushed by update_last_exit_code and is on file.
FlushedOnFile(q, k) ==
    /\ ~(pending_entry[q] /\ k = Len(entries[q]))
    /\ IsSome(entries[q][k].exit_code)
    /\ HasLineOf(data_file, entries[q][k])

\* C36 as stated: with two History instances sharing one backing file,
\* compact() by one instance never removes from the file an entry that the
\* other instance has already flushed with update_last_exit_code and still
\* retains in its own memory.
C36_Original ==
    [][ \A p \in live :
            (InCompact(p) /\ hpc'[p] # hpc[p]) =>
                \A q \in live \ {p} :
                    \A k \in 1..Len(entries[q]) :
                        FlushedOnFile(q, k) => HasLineOf(data_file', entries[q][k]) ]_historyVars

\* A and B each added one entry and flushed it; A's compact() has then
\* returned: the file holds A's entry alone, B still holding its own.
C36_Witness ==
    /\ hpc["A"] = "idle"
    /\ hpc["B"] = "idle"
    /\ log["A"] = <<<<"A", 1>>>>
    /\ log["B"] = <<<<"B", 2>>>>
    /\ ~pending_entry["A"]
    /\ ~pending_entry["B"]
    /\ entries["B"] = <<[command |-> <<"B", 2>>, exit_code |-> Some(0)]>>
    /\ Len(entries["A"]) = 1
    /\ data_file.exists
    /\ data_file.tail = <<>>
    /\ data_file.lines = <<<<Serialize(entries["A"][1])>>>>
    /\ entries_since_compact["A"] = 1

\* compact() keeps on file what its own instance holds, pending entry
\* excepted.
C36_KeepsOwnEntries ==
    [][ \A p \in live :
            (hpc[p] = "cmp_rename" /\ hpc'[p] = "idle" /\ p \notin lock') =>
                \A k \in 1..EntriesToWrite(entries[p], pending_entry[p]) :
                    HasLineOf(data_file', entries[p][k]) ]_historyVars

\* C22 as stated: a History constructed on a backing file made of any lines
\* holds exactly the entries of the lines that are valid serialized entries,
\* in file order, cut to the last max_entries of them: a line that cannot be
\* read or parsed is skipped and affects no other line.
C22_Original ==
    \A p \in live :
        (hpc[p] = "idle" /\ data_file.exists) =>
            entries[p] = LastN(ValidEntries(LinesOf(data_file)), max_entries)

\* The file holds an entry, a line that is not valid UTF-8, and another
\* entry: the History constructed from it holds the first entry only.
C22_Witness ==
    /\ hpc["A"] = "idle"
    /\ Len(data_file.lines) = 3
    /\ IsSome(Deserialize(data_file.lines[1]))
    /\ ~IsReadable(data_file.lines[2])
    /\ IsReadable(data_file.lines[3]) /\ IsSome(Deserialize(data_file.lines[3]))
    /\ Len(entries["A"]) = 1
    /\ Serialize(entries["A"][1]) = data_file.lines[1][1]

-----------------------------------------------------------------------------
(***************************************************************************)
(*                          THE INTERACTIVE LOOP                           *)
(***************************************************************************)

VARIABLES
    rpc,        \* where Repl::run is: "off", "read" (at readline), "added"
                \* (the entry is in the history), "updating" (in
                \* update_last_exit_code), "gone" (the process is over)
    line_kind   \* what the line read last was: "none", "nothing" (blank,
                \* Empty, a parse error or an empty query), "command", "query"

replVars == <<rpc, line_kind>>

\* The History of the interactive shell.
ReplHistory == "A"

ReplInit ==
    /\ rpc = "read"
    /\ line_kind = "none"

\* The loop when another component is being explored.
ReplIdle ==
    /\ rpc = "off"
    /\ line_kind = "none"

\* A line that adds nothing to the history: it trims to nothing, parses to
\* Empty or to an error, or is an AI query with no text; the loop goes on to
\* the next line.
ReadNothing ==
    /\ rpc = "read"
    /\ line_kind' = "nothing"
    /\ UNCHANGED <<rpc, historyVars>>

\* A line that parses to Commands: the entry is added.
ReadCommand ==
    /\ rpc = "read"
    /\ Add(ReplHistory)
    /\ rpc' = "added"
    /\ line_kind' = "command"

\* A line that parses to an AI query with text: the entry is added.
ReadQuery ==
    /\ rpc = "read"
    /\ Add(ReplHistory)
    /\ rpc' = "added"
    /\ line_kind' = "query"

\* execute_pipeline has returned Ok with a code, or Err:
\* update_last_exit_code is called with the code, or with 1.
Executed ==
    /\ rpc = "added"
    /\ line_kind = "command"
    /\ \E code \in ExitCodes : UpdateLastExitCodeWith(ReplHistory, code)
    /\ rpc' = "updating"
    /\ UNCHANGED line_kind

\* execute_pipeline does not return: the exit built-in, or a panic.
ProcessEnded ==
    /\ rpc = "added"
    /\ hpc[ReplHistory] = "idle"
    /\ line_kind = "command"
    /\ rpc' = "gone"
    /\ UNCHANGED <<line_kind, historyVars>>

\* The AI agent is configured and query_stream has returned Ok or Err:
\* update_last_exit_code is called with 0 or with 1.
Answered ==
    /\ rpc = "added"
    /\ line_kind = "query"
    /\ \E code \in {0, 1} : UpdateLastExitCodeWith(ReplHistory, code)
    /\ rpc' = "updating"
    /\ UNCHANGED line_kind

\* The AI agent is not configured: the message is printed and the loop goes
\* on to the next line.
NotConfigured ==
    /\ rpc = "added"
    /\ hpc[ReplHistory] = "idle"
    /\ line_kind = "query"
    /\ rpc' = "read"
    /\ UNCHANGED <<line_kind, historyVars>>

\* update_last_exit_code has returned, with Ok or Err: the loop goes on to
\* the next line.
NextLine ==
    /\ rpc = "updating"
    /\ hpc[ReplHistory] = "idle"
    /\ rpc' = "read"
    /\ UNCHANGED <<line_kind, historyVars>>

-----------------------------------------------------------------------------
(* The interactive loop's claims. *)

\* C26 as stated: in the interactive loop, when the next line is read every
\* entry added for an earlier line, command or AI query, has its exit code,
\* whether the line succeeded or failed.
C26_Original ==
    rpc = "read" =>
        \A k \in 1..Len(entries[ReplHistory]) :
            IsSome(entries[ReplHistory][k].exit_code)

\* An AI query was read while the agent was not configured: the loop is back
\* at readline and the entry added for the query has no exit code and is
\* still pending.
C26_Witness ==
    /\ rpc = "read"
    /\ line_kind = "query"
    /\ Len(entries[ReplHistory]) = 1
    /\ entries[ReplHistory][1].exit_code = None
    /\ pending_entry[ReplHistory]
    /\ ~data_file.exists

-----------------------------------------------------------------------------
(* The specifications. *)

vars == <<parserVars, executorVars, aliasVars, sessionVars, dispatchVars, historyVars,
          replVars, cdVars, nestVars, flowVars>>

InitParser == ParserInit /\ ExecutorInit /\ AliasIdle /\ SessionIdle /\ DispatchIdle /\ HistoryIdle /\ ReplIdle /\ CdIdle /\ NestIdle /\ FlowIdle

ParserOnly == UNCHANGED <<executorVars, aliasVars, sessionVars, dispatchVars, historyVars, replVars, cdVars, nestVars, flowVars>>

ParserNext ==
    \/ Parse /\ ParserOnly
    \/ ScanChar /\ ParserOnly
    \/ Finish /\ ParserOnly

SpecParser == InitParser /\ [][ParserNext]_vars

\* The parser on the lines written to a shape.
InitParserLines == ParserInitLines /\ ExecutorInit /\ AliasIdle /\ SessionIdle /\ DispatchIdle /\ HistoryIdle /\ ReplIdle /\ CdIdle /\ NestIdle /\ FlowIdle

SpecParserLines == InitParserLines /\ [][ParserNext]_vars

InitExecutor == ParserIdle /\ ExecutorInit /\ AliasIdle /\ SessionIdle /\ DispatchIdle /\ HistoryIdle /\ ReplIdle /\ CdIdle /\ NestIdle /\ FlowIdle

ExecutorOnly == UNCHANGED <<parserVars, aliasVars, sessionVars, dispatchVars, historyVars, replVars, cdVars, nestVars, flowVars>>

ExecutorNext ==
    \/ ExecutePipeline /\ ExecutorOnly
    \/ SpawnSegment /\ ExecutorOnly
    \/ ChildExit /\ ExecutorOnly
    \/ WaitChild /\ ExecutorOnly
    \/ ReturnExitCode /\ ExecutorOnly

SpecExecutor == InitExecutor /\ [][ExecutorNext]_vars

InitPipes ==
    ParserIdle /\ ExecutorInit /\ AliasIdle /\ SessionIdle /\ DispatchIdle /\ HistoryIdle
    /\ ReplIdle /\ CdIdle /\ NestIdle /\ FlowInit

PipesOnly ==
    UNCHANGED <<parserVars, aliasVars, sessionVars, dispatchVars, historyVars, replVars,
                cdVars, nestVars>>

\* The steps of the shell's thread in one call of execute_pipeline.
ShellStep ==
    \/ epc = "idle" /\ ExecutePipeline
    \/ SpawnSegment
    \/ WaitChild
    \/ ReturnExitCode

PipesNext ==
    \/ ShellStep /\ UNCHANGED flowVars /\ PipesOnly
    \/ ChildCopies /\ PipesOnly
    \/ ChildEnds /\ PipesOnly

\* Scheduling: the shell's thread and every child run while they can.
PipesFairness ==
    /\ WF_vars(ShellStep /\ UNCHANGED flowVars /\ PipesOnly)
    /\ WF_vars(ChildCopies /\ PipesOnly)
    /\ WF_vars(ChildEnds /\ PipesOnly)

SpecPipes == InitPipes /\ [][PipesNext]_vars /\ PipesFairness

InitAlias == ParserIdle /\ ExecutorInit /\ AliasInit /\ SessionIdle /\ DispatchIdle /\ HistoryIdle /\ ReplIdle /\ CdIdle /\ NestIdle /\ FlowIdle

AliasOnly == UNCHANGED <<parserVars, executorVars, sessionVars, dispatchVars, historyVars, replVars, cdVars, nestVars, flowVars>>

AliasNext ==
    \/ BuiltinAlias /\ AliasOnly
    \/ ResolveAlias /\ AliasOnly

SpecAlias == InitAlias /\ [][AliasNext]_vars

InitSession ==
    ParserOfSession /\ ExecutorInit /\ AliasIdle /\ SessionInit /\ DispatchIdle /\ HistoryIdle /\ ReplIdle /\ CdIdle /\ NestIdle /\ FlowIdle

SessionOnly == UNCHANGED <<parserVars, pipelineVars, aliasVars, dispatchVars, historyVars, replVars, cdVars, nestVars, flowVars>>

SessionNext ==
    \/ RunLine /\ SessionOnly
    \/ CallSource /\ SessionOnly
    \/ SourceLine /\ SessionOnly
    \/ SourceReturn /\ SessionOnly
    \/ SourceDropped /\ SessionOnly

SpecSession == InitSession /\ [][SessionNext]_vars

InitDispatch ==
    ParserIdle /\ ExecutorInit /\ AliasesAtDispatch /\ SessionIdle /\ DispatchInit /\ HistoryIdle /\ ReplIdle /\ CdIdle /\ NestIdle /\ FlowIdle

DispatchOnly == UNCHANGED <<parserVars, executorVars, aliasVars, sessionVars, historyVars, replVars, cdVars, nestVars, flowVars>>

DispatchNext ==
    \/ Dispatch /\ DispatchOnly
    \/ SpawnCall /\ DispatchOnly
    \/ SpawnedAll /\ DispatchOnly

SpecDispatch == InitDispatch /\ [][DispatchNext]_vars

InitCd ==
    ParserIdle /\ ExecutorInit /\ AliasIdle /\ SessionIdle /\ DispatchIdle /\ HistoryIdle
    /\ ReplIdle /\ CdInit /\ NestIdle /\ FlowIdle

CdOnly ==
    UNCHANGED <<parserVars, pipelineVars, aliasVars, sessionVars, dispatchVars, historyVars,
                replVars, nestVars, flowVars>>

InitNest ==
    ParserIdle /\ ExecutorInit /\ AliasIdle /\ SessionIdle /\ DispatchIdle /\ HistoryIdle
    /\ ReplIdle /\ CdIdle /\ NestInit /\ FlowIdle

NestOnly ==
    UNCHANGED <<parserVars, executorVars, aliasVars, sessionVars, dispatchVars, historyVars,
                replVars, cdVars, flowVars>>

NestNext ==
    \/ SourceCalled /\ NestOnly
    \/ SourceTurn /\ NestOnly
    \/ SourceReturns /\ NestOnly

\* Scheduling: the thread of the shell goes on while it can.
SpecNest == InitNest /\ [][NestNext]_vars /\ WF_vars(NestNext)

CdNext ==
    \/ BuiltinCd /\ CdOnly

SpecCd == InitCd /\ [][CdNext]_vars

InitHistory == ParserIdle /\ ExecutorInit /\ AliasIdle /\ SessionIdle /\ DispatchIdle /\ HistoryInit /\ ReplIdle /\ CdIdle /\ NestIdle /\ FlowIdle

HistoryOnly == UNCHANGED <<parserVars, executorVars, aliasVars, sessionVars, dispatchVars, replVars, cdVars, nestVars, flowVars>>

\* The steps of the instances, no system call failing.
HistoryNext ==
    \/ \E p \in Insts : Add(p) /\ HistoryOnly
    \/ \E p \in Insts : UpdateLastExitCode(p) /\ HistoryOnly
    \/ \E p \in Insts : Compact(p) /\ HistoryOnly
    \/ \E p \in Insts : AcquireLock(p) /\ HistoryOnly
    \/ \E p \in Insts : UpdOpen(p) /\ HistoryOnly
    \/ \E p \in Insts : UpdWrite(p) /\ HistoryOnly
    \/ \E p \in Insts : UpdNewline(p) /\ HistoryOnly
    \/ \E p \in Insts : UpdFinish(p) /\ HistoryOnly
    \/ \E p \in Insts : CmpCreate(p) /\ HistoryOnly
    \/ \E p \in Insts : CmpWrite(p) /\ HistoryOnly
    \/ \E p \in Insts : CmpNewline(p) /\ HistoryOnly
    \/ \E p \in Insts : CmpRename(p) /\ HistoryOnly
    \/ \E p \in Insts : Clear(p) /\ HistoryOnly
    \/ \E p \in Insts : ClrRemove(p) /\ HistoryOnly
    \/ \E p \in Insts : Restart(p) /\ HistoryOnly

SpecHistory == InitHistory /\ [][HistoryNext]_vars

InitHistoryFair == InitHistory

\* A step of a call between acquire_lock's return and the call's return.
LockedStep(p) ==
    \/ UpdOpen(p)
    \/ UpdWrite(p)
    \/ UpdNewline(p)
    \/ UpdFinish(p)
    \/ CmpCreate(p)
    \/ CmpWrite(p)
    \/ CmpNewline(p)
    \/ CmpRename(p)

\* The calls that lock, on instances sharing the path; a system call may fail
\* inside a lock-held section.
HistoryFairNext ==
    \/ \E p \in Insts : Add(p) /\ HistoryOnly
    \/ \E p \in Insts : UpdateLastExitCode(p) /\ HistoryOnly
    \/ \E p \in Insts : Compact(p) /\ HistoryOnly
    \/ \E p \in Insts : AcquireLock(p) /\ HistoryOnly
    \/ \E p \in Insts : LockedStep(p) /\ HistoryOnly
    \/ \E p \in Insts : IoError(p) /\ p \in lock /\ HistoryOnly
    \/ \E p \in Insts : TornWrite(p) /\ HistoryOnly

\* Scheduling: a call that can take a step inside its lock-held section
\* takes it, and a call blocked in flock that is woken again and again gets
\* the lock.
HistoryFairness ==
    \A p \in FileBacked :
        /\ WF_vars(LockedStep(p) /\ HistoryOnly)
        /\ SF_vars(AcquireLock(p) /\ HistoryOnly)

SpecHistoryFair == InitHistoryFair /\ [][HistoryFairNext]_vars /\ HistoryFairness

InitHistorySingle == ParserIdle /\ ExecutorInit /\ AliasIdle /\ SessionIdle /\ DispatchIdle /\ HistoryInitSingle /\ ReplIdle /\ CdIdle /\ NestIdle /\ FlowIdle

\* The steps of the instances, system calls failing up to MaxFaults times.
HistoryFaultyNext ==
    \/ HistoryNext
    \/ \E p \in Insts : IoError(p) /\ HistoryOnly
    \/ \E p \in Insts : TornWrite(p) /\ HistoryOnly

SpecHistorySingle == InitHistorySingle /\ [][HistoryFaultyNext]_vars

\* The interactive loop on its History, alone on its path.
InitRepl ==
    ParserIdle /\ ExecutorInit /\ AliasIdle /\ SessionIdle /\ DispatchIdle /\ HistoryInitSingle
    /\ ReplInit /\ CdIdle /\ NestIdle /\ FlowIdle

ReplOnly == UNCHANGED <<parserVars, executorVars, aliasVars, sessionVars, dispatchVars, cdVars, nestVars, flowVars>>

\* A step inside History::add or History::update_last_exit_code.
InHistoryCall == HistoryOnly

ReplNext ==
    \/ ReadNothing /\ ReplOnly
    \/ ReadCommand /\ ReplOnly
    \/ ReadQuery /\ ReplOnly
    \/ Executed /\ ReplOnly
    \/ ProcessEnded /\ ReplOnly
    \/ Answered /\ ReplOnly
    \/ NotConfigured /\ ReplOnly
    \/ NextLine /\ ReplOnly
    \/ AcquireLock(ReplHistory) /\ InHistoryCall
    \/ UpdOpen(ReplHistory) /\ InHistoryCall
    \/ UpdWrite(ReplHistory) /\ InHistoryCall
    \/ UpdNewline(ReplHistory) /\ InHistoryCall
    \/ UpdFinish(ReplHistory) /\ InHistoryCall
    \/ CmpCreate(ReplHistory) /\ InHistoryCall
    \/ CmpWrite(ReplHistory) /\ InHistoryCall
    \/ CmpNewline(ReplHistory) /\ InHistoryCall
    \/ CmpRename(ReplHistory) /\ InHistoryCall
    \/ IoError(ReplHistory) /\ InHistoryCall
    \/ TornWrite(ReplHistory) /\ InHistoryCall

SpecRepl == InitRepl /\ [][ReplNext]_vars

InitHistoryMemory ==
    ParserIdle /\ ExecutorInit /\ AliasIdle /\ SessionIdle /\ DispatchIdle /\ HistoryInitMemory /\ ReplIdle /\ CdIdle /\ NestIdle /\ FlowIdle

SpecHistoryMemory == InitHistoryMemory /\ [][HistoryNext]_vars

InitHistoryGrowth ==
    ParserIdle /\ ExecutorInit /\ AliasIdle /\ SessionIdle /\ DispatchIdle /\ HistoryInitShort
    /\ ReplIdle /\ CdIdle /\ NestIdle /\ FlowIdle

\* A History from its construction on: its calls, system calls failing up to
\* MaxFaults times.
HistoryGrowthNext ==
    \/ \E p \in Insts : New(p) /\ HistoryOnly
    \/ \E p \in Insts : Add(p) /\ HistoryOnly
    \/ \E p \in Insts : UpdateLastExitCode(p) /\ HistoryOnly
    \/ \E p \in Insts : Compact(p) /\ HistoryOnly
    \/ \E p \in Insts : AcquireLock(p) /\ HistoryOnly
    \/ \E p \in Insts : UpdOpen(p) /\ HistoryOnly
    \/ \E p \in Insts : UpdWrite(p) /\ HistoryOnly
    \/ \E p \in Insts : UpdNewline(p) /\ HistoryOnly
    \/ \E p \in Insts : UpdFinish(p) /\ HistoryOnly
    \/ \E p \in Insts : CmpCreate(p) /\ HistoryOnly
    \/ \E p \in Insts : CmpWrite(p) /\ HistoryOnly
    \/ \E p \in Insts : CmpNewline(p) /\ HistoryOnly
    \/ \E p \in Insts : CmpRename(p) /\ HistoryOnly
    \/ \E p \in Insts : Clear(p) /\ HistoryOnly
    \/ \E p \in Insts : ClrRemove(p) /\ HistoryOnly
    \/ \E p \in Insts : IoError(p) /\ HistoryOnly
    \/ \E p \in Insts : TornWrite(p) /\ HistoryOnly

SpecHistoryGrowth == InitHistoryGrowth /\ [][HistoryGrowthNext]_vars

InitHistoryLoad == ParserIdle /\ ExecutorInit /\ AliasIdle /\ SessionIdle /\ DispatchIdle /\ HistoryInitLoad /\ ReplIdle /\ CdIdle /\ NestIdle /\ FlowIdle

\* The construction of a History on the file it finds.
HistoryLoadNext ==
    \/ \E p \in Insts : New(p) /\ HistoryOnly

SpecHistoryLoad == InitHistoryLoad /\ [][HistoryLoadNext]_vars

=============================================================================
